---- MODULE Spec2Model ----
(***************************************************************************)
(* Cross-task coordination and streaming pipeline of the PyroVision        *)
(* thermal camera firmware: capture task, GUI task, WebSocket broadcast    *)
(* task, HTTP server task and the network orchestrator.                    *)
(***************************************************************************)
EXTENDS Integers, Sequences, FiniteSets, TLC

(***************************************************************************)
(* Bounds of the model                                                     *)
(***************************************************************************)
\* number of raw frames the VoSPI driver delivers in one run
MaxFrames == 3

\* number of frames the capture task publishes while the server is observed
MaxStreamFrames == 2

\* number of socket descriptors WebSocket connections are opened on
MaxSockets == 1

\* largest value of the WiFi max-retries setting
MaxRetries == 2

\* largest value of the provisioning timeout setting, in seconds
MaxTimeout == 2

\* number of times an established link is lost
MaxDrops == 1

\* number of OPEN_WIFI_REQUEST events posted
MaxRequests == 1
MaxRoiPosts == 2

\* number of NETWORK_EVENT_SET_TZ events posted
MaxTzPosts == 1

\* polls of the Running flag a Stop call makes before it gives up (20 in
\* Lepton_Task_Stop and Network_Task_Stop, 100 in DevicesTask_Task_Stop)
MaxPolls == 2

\* provisioning requests made to the captive portal
MaxProvPosts == 1

(***************************************************************************)
(* Program constants                                                       *)
(***************************************************************************)
\* size of the client table
WS_MAX_CLIENTS == 4

\* values of "fps" a start command carries
CmdFps == {10, 300}

\* descriptors of the connections whose peer stops reading: every
\* httpd_ws_send_frame_async of a binary frame to them fails
FailingFds == {1}

\* values esp_timer_get_time() / 1000 takes when the broadcast task reads it
TimeSamples == {100, 200}

\* telemetry_interval_ms of a subscribed client, at its lower clamp
TelemetryInterval == 100

\* SSIDs a provisioning request can carry
ProvSSIDs == {"Y", "Z"}

\* timezone strings a POST /api/time request carries
TzNames == {"UTC", "CET"}

\* what a freed heap block can hold when it is read: its old contents, or whatever
\* the allocator or a later owner wrote there
FreedContents == TzNames \cup {"garbage"}

(***************************************************************************)
(* State                                                                   *)
(***************************************************************************)
VARIABLES
    \* ---- capture task (leptonTask.cpp) ----
    RawFrameQueue,          \* _LeptonTask_State.RawFrameQueue, 1 slot
    rawCount,               \* frames delivered by the VoSPI driver so far
    lpc,                    \* position of Task_Lepton in its loop
    RawFrame,               \* _LeptonTask_State.RawFrame (frame number)
    WriteBufferIdx,         \* local WriteBufferIdx of Task_Lepton
    CurrentReadBuffer,      \* _LeptonTask_State.CurrentReadBuffer
    BufferMutex,            \* _LeptonTask_State.BufferMutex: "free" or holder
    \* ---- frame channel (main.cpp) ----
    Lepton_FrameEventQueue, \* App_Context.Lepton_FrameEventQueue, 1 slot
    pubLog,                 \* descriptors published since the last receive
    nCoalesced,             \* publishes covered by the last successful receive
    \* ---- GUI task (guiTask.cpp) ----
    gpc,                    \* position of Task_GUI in its loop
    LeptonEvent,            \* local LeptonEvent of Task_GUI
    guiSkipped,             \* the last render cycle found the NetworkFrame mutex taken
    \* ---- NetworkFrame (guiTask.cpp), shared with the server ----
    NetworkFrame,           \* _GUITask_State.NetworkFrame: pixel buffer and fields
    nfMutex,                \* NetworkFrame.mutex: "free" or holder
    lastComplete,           \* frame number of the last finished NetworkFrame update
    \* ---- server (server.h, http_server.cpp) ----
    httpRunning,            \* _HTTP_Server_State.isRunning
    httpThermalFrame,       \* _HTTP_Server_State.ThermalFrame registered
    regpc,                  \* position of the SERVER_STARTED handler of the GUI
    hpc,                    \* position of the httpd task
    Frame,                  \* request / WebSocket frame the httpd task handles
    Client,                 \* WS_Handler's Client: slot found, 0 for NULL
    sockets,                \* descriptors of the open WebSocket connections
    \* ---- WebSocket handler (websocket_handler.cpp) ----
    isInitialized,          \* _WSHandler_State.isInitialized
    Clients,                \* _WSHandler_State.Clients
    ClientCount,            \* _WSHandler_State.ClientCount
    ClientsMutex,           \* _WSHandler_State.ClientsMutex: "free" or holder
    ThermalFrame,           \* _WSHandler_State.ThermalFrame registered
    FrameReadyQueue,        \* _WSHandler_State.FrameReadyQueue, 1 slot
    \* ---- WS_BroadcastTask ----
    bpc,                    \* position of WS_BroadcastTask
    Now,                    \* local Now
    bi,                     \* loop index i
    client_idx,             \* local client_idx
    client_fd,              \* local client_fd
    send_err,               \* local send_err (TRUE: the send failed)
    Encoded,                \* frame number held by the Encoded image, 0 when freed
    sigCount,               \* signals raised since the last receive
    cycle,                  \* state of the cycle the last receive opened
    cycleK,                 \* signals covered by the last receive
    encCount,               \* encodes made in that cycle
    \* ---- settings and build (settingsManager.cpp, sdkconfig) ----
    AutoConnect,            \* WiFiSettings.AutoConnect
    StoredSSID,             \* AppContext->STA_Config.Credentials.SSID
    LogDebug,               \* ESP_LOGD statements are compiled in
    timeout_sec,            \* _Provisioning_State.timeout_sec
    \* ---- network task (networkTask.cpp) ----
    ApplicationStarted,     \* _NetworkTask_State.ApplicationStarted
    npc,                    \* position of Task_Network
    WaitingForWiFiRequest,  \* local WaitingForWiFiRequest of Task_Network
    TaskState,              \* _NetworkTask_State.State
    EventBits,              \* bits set in _NetworkTask_State.EventGroup
    NotificationValue,      \* bit 0x01 of the pending task notification
    \* ---- network manager (networkManager.cpp) ----
    ManagerState,           \* _Network_Manager_State.State
    RetryCount,             \* _Network_Manager_State.RetryCount
    Retries,                \* _Network_Manager_State.Retries
    \* ---- provisioning (provisioning.cpp) ----
    active,                 \* _Provisioning_State.active
    timerActive,            \* timeout_timer is running
    \* ---- default event loop and WiFi driver ----
    evq,                    \* events posted and not yet dispatched
    wifi,                   \* driver: "stopped", "started", "connecting", "connected"
    failed,                 \* consecutive failed connection attempts
    drops,                  \* links lost after a connection
    requests,               \* OPEN_WIFI_REQUEST events posted
    elapsed,                \* seconds provisioning has been active
    nServerStarted,         \* NETWORK_EVENT_SERVER_STARTED events posted
    nProvTimeout,           \* NETWORK_EVENT_PROV_TIMEOUT events posted
    \* ---- payload of NETWORK_EVENT_SET_TZ ----
    evData,                 \* contents of the event loop's copy of the payload
    evpc,                   \* "free": the loop is about to free the dispatched copy
    Timezone,               \* _NetworkTask_State.Timezone: "null" or "copy"
    SystemTimezone,         \* SystemSettings.Timezone as last written by the task
    tzDelivered,            \* payload of the last SET_TZ event handled
    tzExpected,             \* payload the task was asked to apply at its last write
    tzPosts,                \* SET_TZ events posted
    \* ---- task life cycle ----
    LeptonBits,             \* _LeptonTask_State.EventGroup
    LeptonRunning,          \* _LeptonTask_State.Running
    NetRunning,             \* _NetworkTask_State.Running
    dpc,                    \* Task_Devices: "loop", "stopped"
    DevicesBits,            \* _DevicesTask_State.EventGroup
    DevicesRunning,         \* _DevicesTask_State.Running
    stopping,               \* the Stop call in progress, "none" when there is none
    polls,                  \* i of the polling loop of that call
    stopRet,                \* per task: what its Stop call returned
    stopExhausted,          \* per task: the polling loop ended with Running still set
    \* ---- task initialisation ----
    initRet,                \* per task: what its Init function returned, "none" before
    held,                   \* per task: resources and registrations it holds
    \* ---- WiFi credentials ----
    MgrSSID,                \* _Network_Manager_State.STA_Config.ssid
    staSSID,                \* SSID of the station configuration given to the driver
    rxSSID,                 \* SSID of the last provisioning request received
    provPosts,              \* provisioning requests made
    \* ---- time manager (timeManager.cpp) ----
    hasNetwork,             \* _TimeManager_State.hasNetwork
    \* ---- ROI request of the GUI (leptonTask.cpp) ----
    ROI,                    \* _LeptonTask_State.ROI: <<x, w>>
    roipc,                  \* the capture task's handler: "copy" inside its memcpy
    roiPosts,               \* GUI_EVENT_REQUEST_ROI events handled
    roiApplied              \* the rectangle last given to Lepton_SetSpotmeterROI

leptonVars == <<RawFrameQueue, rawCount, lpc, RawFrame, WriteBufferIdx,
                CurrentReadBuffer, BufferMutex>>
chanVars == <<Lepton_FrameEventQueue, pubLog, nCoalesced>>
guiVars == <<gpc, LeptonEvent, guiSkipped>>
nfVars == <<NetworkFrame, nfMutex, lastComplete>>
srvVars == <<httpRunning, httpThermalFrame, regpc>>
httpdVars == <<hpc, Frame, Client, sockets>>
wsVars == <<isInitialized, Clients, ClientCount, ClientsMutex, ThermalFrame>>
sigVars == <<FrameReadyQueue, sigCount>>
bcVars == <<bpc, Now, bi, client_idx, client_fd, send_err, Encoded, cycle, cycleK, encCount>>

frameVars == <<leptonVars, chanVars, guiVars>>
streamVars == <<nfVars, srvVars, httpdVars, wsVars, sigVars, bcVars>>

cfgVars == <<AutoConnect, StoredSSID, LogDebug, timeout_sec, Retries>>
taskVars == <<ApplicationStarted, npc, WaitingForWiFiRequest, TaskState, EventBits,
              NotificationValue>>
mgrVars == <<ManagerState, RetryCount>>
provVars == <<active, timerActive, elapsed>>
drvVars == <<evq, wifi, failed, drops, requests>>
postVars == <<nServerStarted, nProvTimeout>>
tzVars == <<evData, evpc, Timezone, SystemTimezone, tzDelivered, tzExpected, tzPosts>>
lifeVars == <<LeptonBits, LeptonRunning, NetRunning, dpc, DevicesBits, DevicesRunning,
              stopping, polls, stopRet, stopExhausted>>
initVars == <<initRet, held>>
credVars == <<MgrSSID, staSSID, rxSSID, provPosts>>
roiVars == <<ROI, roipc, roiPosts, roiApplied>>
auxVars == <<initVars, credVars, hasNetwork, roiVars>>
netVars == <<cfgVars, taskVars, mgrVars, provVars, drvVars, postVars, tzVars, lifeVars,
             auxVars>>

vars == <<frameVars, streamVars, netVars>>

NoFrame == [Buffer |-> 0, Seq |-> 0]

\* the httpd task between two requests
NoRequest == [fd |-> 0, type |-> "none", valid |-> TRUE]

(***************************************************************************)
(* VoSPI capture driver: delivers raw frames into the 1-slot raw queue     *)
(***************************************************************************)
VoSPI_Deliver ==
    /\ rawCount < MaxFrames
    /\ rawCount' = rawCount + 1
    /\ RawFrameQueue' = <<rawCount + 1>>
    /\ UNCHANGED <<netVars, lpc, RawFrame, WriteBufferIdx, CurrentReadBuffer, BufferMutex,
                   chanVars, guiVars, streamVars>>

(***************************************************************************)
(* Task_Lepton                                                             *)
(***************************************************************************)
\* xQueueReceive(RawFrameQueue, 500 ms): a frame, or the timeout
Lepton_Receive ==
    /\ lpc = "wait"
    /\ IF RawFrameQueue # <<>>
         THEN /\ RawFrame' = Head(RawFrameQueue)
              /\ RawFrameQueue' = <<>>
              /\ lpc' = "select"
         ELSE /\ lpc' = "events"
              /\ UNCHANGED <<RawFrame, RawFrameQueue>>
    /\ UNCHANGED <<netVars, rawCount, WriteBufferIdx, CurrentReadBuffer, BufferMutex,
                   chanVars, guiVars, streamVars>>

\* first lock phase: take the buffer mutex (100 ms) or abandon the frame
Lepton_SelectTake ==
    /\ lpc = "select"
    /\ IF BufferMutex = "free"
         THEN /\ BufferMutex' = "lepton"
              /\ lpc' = "selected"
         ELSE /\ lpc' = "wait"
              /\ UNCHANGED BufferMutex
    /\ UNCHANGED <<netVars, RawFrameQueue, rawCount, RawFrame, WriteBufferIdx, CurrentReadBuffer,
                   chanVars, guiVars, streamVars>>

\* WriteBufferIdx = (CurrentReadBuffer + 1) % 2, then give the mutex
Lepton_SelectGive ==
    /\ lpc = "selected"
    /\ WriteBufferIdx' = (CurrentReadBuffer + 1) % 2
    /\ BufferMutex' = "free"
    /\ lpc' = "convert"
    /\ UNCHANGED <<netVars, RawFrameQueue, rawCount, RawFrame, CurrentReadBuffer,
                   chanVars, guiVars, streamVars>>

\* memcpy / Lepton_Raw14ToRGB into RGB_Buffer[WriteBufferIdx], outside the lock;
\* the task is at "convert" for as long as it writes the buffer
Lepton_Convert ==
    /\ lpc = "convert"
    /\ lpc' = "commit"
    /\ UNCHANGED <<netVars, RawFrameQueue, rawCount, RawFrame, WriteBufferIdx, CurrentReadBuffer,
                   BufferMutex, chanVars, guiVars, streamVars>>

\* second lock phase: CurrentReadBuffer = WriteBufferIdx under the mutex
Lepton_Commit ==
    /\ lpc = "commit"
    /\ IF BufferMutex = "free"
         THEN /\ CurrentReadBuffer' = WriteBufferIdx
              /\ lpc' = "publish"
         ELSE /\ lpc' = "wait"
              /\ UNCHANGED CurrentReadBuffer
    /\ UNCHANGED <<netVars, RawFrameQueue, rawCount, RawFrame, WriteBufferIdx, BufferMutex,
                   chanVars, guiVars, streamVars>>

\* the descriptor handed to the GUI task
FrameEvent == [Buffer |-> WriteBufferIdx, Seq |-> RawFrame]

\* a publish that keeps the waiting descriptor when the slot is taken
Lepton_Publish_KeepOld ==
    /\ lpc = "publish"
    /\ Lepton_FrameEventQueue' =
          IF Lepton_FrameEventQueue = <<>> THEN <<FrameEvent>> ELSE Lepton_FrameEventQueue
    /\ pubLog' = Append(pubLog, FrameEvent)
    /\ lpc' = "events"
    /\ UNCHANGED <<netVars, RawFrameQueue, rawCount, RawFrame, WriteBufferIdx, CurrentReadBuffer,
                   BufferMutex, nCoalesced, guiVars, streamVars>>

\* xQueueOverwrite(App_Context->Lepton_FrameEventQueue, &FrameEvent)
Lepton_Publish ==
    /\ lpc = "publish"
    /\ Lepton_FrameEventQueue' = <<FrameEvent>>
    /\ pubLog' = Append(pubLog, FrameEvent)
    /\ lpc' = "events"
    /\ UNCHANGED <<netVars, RawFrameQueue, rawCount, RawFrame, WriteBufferIdx, CurrentReadBuffer,
                   BufferMutex, nCoalesced, guiVars, streamVars>>

\* the else-if chain of Task_Lepton's event dispatch, in source order
LeptonChain ==
    <<"UPDATE_ROI_REQUEST", "UPDATE_TEMP_REQUEST", "UPDATE_UPTIME_REQUEST", "STOP_REQUEST",
      "UPDATE_PIXEL_TEMPERATURE", "UPDATE_SPOTMETER", "UPDATE_SCENE_STATISTICS",
      "UPDATE_EMISSIVITY">>

\* the bit an else-if chain handles: the first of the chain that is set, "" if none
Handled(chain, bits) ==
    LET hit == {i \in 1..Len(chain) : chain[i] \in bits}
    IN  IF hit = {} THEN "" ELSE chain[CHOOSE i \in hit : \A j \in hit : i <= j]

\* the part of Task_Lepton before its loop: the two delay loops of 50 x 100 ms,
\* LEPTON_EVENT_CAMERA_READY, Lepton_StartCapture; the event group is not read
Lepton_Startup ==
    /\ lpc = "startup"
    /\ lpc' = "wait"
    /\ UNCHANGED <<netVars, RawFrameQueue, rawCount, RawFrame, WriteBufferIdx, CurrentReadBuffer,
                   BufferMutex, chanVars, guiVars, streamVars>>

\* event-bit dispatch at the end of the iteration: one bit of the chain is
\* handled and cleared; STOP_REQUEST leaves the loop and runs the teardown
\* (Lepton_Deinit, Running = false, vTaskDelete). The ROI arm returns from the
\* task function for a type outside the enum; GUI_Update_ROI, the only poster of
\* the request, leaves Type zero (ROI_TYPE_SPOTMETER), so that arm always sets the
\* ROI and goes on; it clears its bit only after the camera call (Lepton_ROI_Set,
\* Lepton_ROI_Clear)
Lepton_Events ==
    /\ lpc = "events"
    /\ LET bit == Handled(LeptonChain, LeptonBits)
       IN  IF bit = "UPDATE_ROI_REQUEST"
             THEN lpc' = "roi" /\ UNCHANGED <<LeptonBits, LeptonRunning>>
             ELSE /\ LeptonBits' = LeptonBits \ {bit}
                  /\ IF bit = "STOP_REQUEST"
                       THEN lpc' = "stopped" /\ LeptonRunning' = FALSE
                       ELSE lpc' = "wait" /\ UNCHANGED LeptonRunning
    /\ UNCHANGED <<auxVars, cfgVars, taskVars, mgrVars, provVars, drvVars, postVars, tzVars,
                   NetRunning, dpc, DevicesBits, DevicesRunning, stopping, polls, stopRet,
                   stopExhausted,
                   RawFrameQueue, rawCount, RawFrame, WriteBufferIdx, CurrentReadBuffer,
                   BufferMutex, chanVars, guiVars, streamVars>>

(***************************************************************************)
(* Task_GUI: frame consumption                                             *)
(***************************************************************************)
\* xQueueReceive(Lepton_FrameEventQueue, &LeptonEvent, 0)
GUI_Receive ==
    /\ gpc = "poll"
    /\ IF Lepton_FrameEventQueue # <<>>
         THEN /\ LeptonEvent' = Head(Lepton_FrameEventQueue)
              /\ Lepton_FrameEventQueue' = <<>>
              /\ nCoalesced' = Len(pubLog)
              /\ \E widgetReady \in BOOLEAN :
                    gpc' = IF widgetReady THEN "scale" ELSE "poll"
         ELSE /\ gpc' = "events"
              /\ nCoalesced' = 0
              /\ UNCHANGED <<LeptonEvent, Lepton_FrameEventQueue>>
    /\ pubLog' = <<>>
    /\ UNCHANGED <<netVars, leptonVars, guiSkipped, streamVars>>

\* bilinear scaling: reads LeptonEvent.Buffer for as long as the task is at "scale"
GUI_Scale ==
    /\ gpc = "scale"
    /\ gpc' = "net"
    /\ UNCHANGED <<netVars, leptonVars, chanVars, LeptonEvent, guiSkipped, streamVars>>

\* event-bit dispatch, lv_timer_handler and the delay at the end of the iteration;
\* when the clock timer is due, GUI_Helper_Timer_ClockUpdate runs inside
\* lv_timer_handler and enters WebSocket_Handler_BroadcastTelemetry, which goes
\* on to the client table when the handler is initialised and has clients
GUI_Events ==
    /\ gpc = "events"
    /\ \E clockDue \in BOOLEAN :
          gpc' = IF clockDue /\ httpRunning /\ isInitialized /\ ClientCount # 0
                   THEN "telemetry" ELSE "poll"
    /\ LeptonEvent' = NoFrame
    /\ nCoalesced' = 0
    /\ guiSkipped' = FALSE
    /\ UNCHANGED <<netVars, leptonVars, Lepton_FrameEventQueue, pubLog, streamVars>>

(***************************************************************************)
(* Task_GUI: NetworkFrame update and frame-ready notification              *)
(***************************************************************************)
\* an update that does not look at the mutex
GUI_NetTake_NoLock ==
    /\ gpc = "net"
    /\ gpc' = IF httpRunning THEN "netpix" ELSE "events"
    /\ UNCHANGED <<netVars, leptonVars, chanVars, LeptonEvent, guiSkipped, nfVars,
                   srvVars, httpdVars, wsVars, sigVars, bcVars>>

\* if (Server_isRunning()) { if (xSemaphoreTake(NetworkFrame.mutex, 0) == pdTRUE) ...
GUI_NetTake ==
    /\ gpc = "net"
    /\ IF httpRunning
         THEN IF nfMutex = "free"
                THEN /\ nfMutex' = "gui"
                     /\ guiSkipped' = FALSE
                     /\ gpc' = "netpix"
                ELSE /\ guiSkipped' = TRUE
                     /\ gpc' = "notify"
                     /\ UNCHANGED nfMutex
         ELSE /\ gpc' = "events"
              /\ UNCHANGED <<nfMutex, guiSkipped>>
    /\ UNCHANGED <<netVars, leptonVars, chanVars, LeptonEvent, NetworkFrame, lastComplete,
                   srvVars, httpdVars, wsVars, sigVars, bcVars>>

\* RGB565 -> RGB888 conversion into NetworkRGBBuffer
GUI_NetWritePix ==
    /\ gpc = "netpix"
    /\ NetworkFrame' = [NetworkFrame EXCEPT !.pix = LeptonEvent.Seq]
    /\ gpc' = "netmeta"
    /\ UNCHANGED <<netVars, leptonVars, chanVars, LeptonEvent, guiSkipped, nfMutex,
                   lastComplete, srvVars, httpdVars, wsVars, sigVars, bcVars>>

\* buffer, width, height, timestamp, temp_min/max/avg, then xSemaphoreGive
GUI_NetWriteMeta ==
    /\ gpc = "netmeta"
    /\ NetworkFrame' = [NetworkFrame EXCEPT !.meta = LeptonEvent.Seq]
    /\ lastComplete' = LeptonEvent.Seq
    /\ nfMutex' = "free"
    /\ gpc' = "notify"
    /\ UNCHANGED <<netVars, leptonVars, chanVars, LeptonEvent, guiSkipped,
                   srvVars, httpdVars, wsVars, sigVars, bcVars>>

\* WebSocket_Handler_HasClients
WebSocket_Handler_HasClients == ClientCount > 0

\* a notification through a queue that keeps every signal
GUI_Notify_Queued ==
    /\ gpc = "notify"
    /\ IF WebSocket_Handler_HasClients /\ isInitialized /\ ClientCount # 0
         THEN /\ FrameReadyQueue' = Append(FrameReadyQueue, 1)
              /\ sigCount' = sigCount + 1
         ELSE UNCHANGED <<FrameReadyQueue, sigCount>>
    /\ gpc' = "events"
    /\ UNCHANGED <<netVars, leptonVars, chanVars, LeptonEvent, guiSkipped, nfVars,
                   srvVars, httpdVars, wsVars, bcVars>>

\* a notification that does not look at the client count
GUI_Notify_Always ==
    /\ gpc = "notify"
    /\ IF isInitialized
         THEN /\ FrameReadyQueue' = <<1>>
              /\ sigCount' = sigCount + 1
         ELSE UNCHANGED <<FrameReadyQueue, sigCount>>
    /\ gpc' = "events"
    /\ UNCHANGED <<netVars, leptonVars, chanVars, LeptonEvent, guiSkipped, nfVars,
                   srvVars, httpdVars, wsVars, bcVars>>

\* if (WebSocket_Handler_HasClients()) WebSocket_Handler_NotifyFrameReady();
\* NotifyFrameReady: invalid state when not initialized, nothing queued without
\* clients, otherwise xQueueOverwrite(FrameReadyQueue, &Signal)
GUI_Notify ==
    /\ gpc = "notify"
    /\ IF WebSocket_Handler_HasClients /\ isInitialized /\ ClientCount # 0
         THEN /\ FrameReadyQueue' = <<1>>
              /\ sigCount' = sigCount + 1
         ELSE UNCHANGED <<FrameReadyQueue, sigCount>>
    /\ gpc' = "events"
    /\ UNCHANGED <<netVars, leptonVars, chanVars, LeptonEvent, guiSkipped, nfVars,
                   srvVars, httpdVars, wsVars, bcVars>>

\* on_Network_Event_Handler, NETWORK_EVENT_SERVER_STARTED:
\* Server_SetThermalFrame -> HTTP_Server_SetThermalFrame
GUI_on_ServerStarted_HTTP ==
    /\ regpc = "pending"
    /\ httpThermalFrame' = TRUE
    /\ regpc' = "ws"
    /\ UNCHANGED <<netVars, frameVars, nfVars, httpRunning, httpdVars, wsVars, sigVars, bcVars>>

\* ... -> WebSocket_Handler_SetThermalFrame, under the clients mutex
GUI_on_ServerStarted_WS ==
    /\ regpc = "ws"
    /\ ClientsMutex = "free"
    /\ ThermalFrame' = TRUE
    /\ regpc' = "done"
    /\ UNCHANGED <<netVars, frameVars, nfVars, httpRunning, httpThermalFrame, httpdVars,
                   isInitialized, Clients, ClientCount, ClientsMutex, sigVars, bcVars>>

\* one whole iteration of Task_Lepton's loop for a delivered frame, taken as one
\* step where the inside of the capture task is not observed
Lepton_Iteration ==
    /\ lpc = "wait"
    /\ rawCount < MaxStreamFrames
    /\ rawCount' = rawCount + 1
    /\ RawFrame' = rawCount + 1
    /\ WriteBufferIdx' = (CurrentReadBuffer + 1) % 2
    /\ CurrentReadBuffer' = WriteBufferIdx'
    /\ Lepton_FrameEventQueue' = <<[Buffer |-> WriteBufferIdx', Seq |-> RawFrame']>>
    /\ pubLog' = Append(pubLog, [Buffer |-> WriteBufferIdx', Seq |-> RawFrame'])
    /\ UNCHANGED <<netVars, RawFrameQueue, lpc, BufferMutex, nCoalesced, guiVars, streamVars>>

(***************************************************************************)
(* WebSocket handler: client table                                         *)
(***************************************************************************)
Slots == 1..WS_MAX_CLIENTS

Fds == 1..MaxSockets

\* a zeroed WS_Client_t (memset in WebSocket_Handler_Init)
NoClient == [fd |-> 0, active |-> FALSE, stream_enabled |-> FALSE,
             stream_fps |-> 0, last_frame_time |-> 0,
             telemetry_enabled |-> FALSE, last_telemetry_time |-> 0]

ActiveSlots == {s \in Slots : Clients[s].active}

\* index of the first slot among S, 0 when there is none
FirstSlot(S) ==
    IF S # {}
      THEN CHOOSE s \in S : \A t \in S : s <= t
      ELSE 0

\* the loop of WS_FindClient / WS_RemoveClient: first active entry with this fd
LookupClient(fd) == FirstSlot({s \in Slots : Clients[s].active /\ Clients[s].fd = fd})

\* (uint8_t)fps->valueint, then clamped to 1..30
ClampFps(v) ==
    LET b == v % 256
    IN  IF b < 1 THEN 1 ELSE IF b > 30 THEN 30 ELSE b

\* WebSocket_Handler_BroadcastTelemetry from the take of ClientsMutex on:
\* xSemaphoreTake(ClientsMutex, portMAX_DELAY), the scan that sends to the
\* subscribed clients whose interval has passed, xSemaphoreGive
WebSocket_Handler_BroadcastTelemetry ==
    /\ gpc = "telemetry"
    /\ ClientsMutex = "free"
    /\ \E now \in TimeSamples :
          Clients' = [s \in Slots |->
                        IF /\ Clients[s].active
                           /\ Clients[s].telemetry_enabled
                           /\ now - Clients[s].last_telemetry_time >= TelemetryInterval
                          THEN [Clients[s] EXCEPT !.last_telemetry_time = now]
                          ELSE Clients[s]]
    /\ gpc' = "poll"
    /\ UNCHANGED <<netVars, leptonVars, chanVars, LeptonEvent, guiSkipped, nfVars, srvVars,
                   httpdVars, isInitialized, ClientCount, ClientsMutex, ThermalFrame,
                   sigVars, bcVars>>

(***************************************************************************)
(* httpd task: WS_Handler and HTTP_Handler_Image                           *)
(***************************************************************************)
\* a WebSocket upgrade request (HTTP_GET) arrives on a new connection
HTTPD_Handshake ==
    /\ hpc = "idle"
    /\ httpRunning
    /\ \E fd \in Fds \ sockets :
          Frame' = [fd |-> fd, type |-> "GET", valid |-> TRUE]
    /\ hpc' = "add"
    /\ UNCHANGED <<netVars, frameVars, nfVars, srvVars, Client, sockets,
                   wsVars, sigVars, bcVars>>

\* WS_AddClient: take the mutex, fill the first inactive entry
WS_AddClient_Fill ==
    /\ hpc = "add"
    /\ ClientsMutex = "free"
    /\ LET i == FirstSlot({s \in Slots : ~Clients[s].active})
       IN  IF i # 0
             THEN /\ Clients' = [Clients EXCEPT ![i] =
                        [fd |-> Frame.fd, active |-> TRUE, stream_enabled |-> FALSE,
                         stream_fps |-> 8, last_frame_time |-> 0,
                         telemetry_enabled |-> FALSE, last_telemetry_time |-> 0]]
                  /\ ClientsMutex' = "httpd"
                  /\ hpc' = "added"
                  /\ UNCHANGED Frame
             ELSE /\ hpc' = "idle"
                  /\ Frame' = NoRequest
                  /\ UNCHANGED <<Clients, ClientsMutex>>
    /\ UNCHANGED <<netVars, frameVars, nfVars, srvVars, Client, sockets,
                   isInitialized, ClientCount, ThermalFrame, sigVars, bcVars>>

\* a WS_AddClient that forgets the counter
WS_AddClient_NoCount ==
    /\ hpc = "added"
    /\ ClientsMutex' = "free"
    /\ sockets' = sockets \cup {Frame.fd}
    /\ hpc' = "idle"
    /\ Frame' = NoRequest
    /\ UNCHANGED <<netVars, frameVars, nfVars, srvVars, Client,
                   isInitialized, Clients, ClientCount, ThermalFrame, sigVars, bcVars>>

\* WS_AddClient: ClientCount++, give the mutex; the handshake completes
WS_AddClient_Count ==
    /\ hpc = "added"
    /\ ClientCount' = ClientCount + 1
    /\ ClientsMutex' = "free"
    /\ sockets' = sockets \cup {Frame.fd}
    /\ hpc' = "idle"
    /\ Frame' = NoRequest
    /\ UNCHANGED <<netVars, frameVars, nfVars, srvVars, Client,
                   isInitialized, Clients, ThermalFrame, sigVars, bcVars>>

\* a WebSocket frame arrives on an open connection
HTTPD_RecvFrame ==
    /\ hpc = "idle"
    /\ \E fd \in sockets, type \in {"TEXT", "CLOSE", "PING", "PONG"}, valid \in BOOLEAN :
          /\ type # "TEXT" => valid
          /\ Frame' = [fd |-> fd, type |-> type, valid |-> valid]
    /\ hpc' = "find"
    /\ UNCHANGED <<netVars, frameVars, nfVars, srvVars, Client, sockets,
                   wsVars, sigVars, bcVars>>

\* a WS_FindClient that gives the mutex back on both paths
WS_FindClient_Give ==
    /\ hpc = "find"
    /\ ClientsMutex = "free"
    /\ Client' = LookupClient(Frame.fd)
    /\ hpc' = "dispatch"
    /\ UNCHANGED <<netVars, frameVars, nfVars, srvVars, Frame, sockets,
                   isInitialized, Clients, ClientCount, ClientsMutex, ThermalFrame,
                   sigVars, bcVars>>

\* Client = WS_FindClient(FD): the mutex is given back only when nothing is found
WS_FindClient ==
    /\ hpc = "find"
    /\ ClientsMutex = "free"
    /\ Client' = LookupClient(Frame.fd)
    /\ ClientsMutex' = IF Client' # 0 THEN "httpd" ELSE "free"
    /\ hpc' = "dispatch"
    /\ UNCHANGED <<netVars, frameVars, nfVars, srvVars, Frame, sockets,
                   isInitialized, Clients, ClientCount, ThermalFrame, sigVars, bcVars>>

\* the payloads of a text frame: not JSON at all, JSON whose "cmd" is not a
\* string, and JSON with a known or an unknown command
Messages ==
    {[json |-> FALSE, isString |-> FALSE, cmd |-> ""],
     [json |-> TRUE, isString |-> FALSE, cmd |-> ""]}
    \cup {[json |-> TRUE, isString |-> TRUE, cmd |-> c] :
             c \in {"start", "stop", "subscribe", "unsubscribe", "reboot"}}

\* a payload WS_ProcessMessage acts on: JSON with one of the four commands
IsCommand(msg) ==
    /\ msg.json
    /\ msg.isString
    /\ msg.cmd \in {"start", "stop", "subscribe", "unsubscribe"}

\* WS_ProcessMessage on the entry WS_FindClient returned, with the WS_Handle*
\* function it selects; the two early returns and the final else change nothing
WS_ProcessMessage(c, msg, fps) ==
    IF ~msg.json \/ ~msg.isString
      THEN c
      ELSE IF msg.cmd = "start"
      THEN [c EXCEPT !.stream_fps = ClampFps(fps),
                     !.stream_enabled = TRUE,
                     !.last_frame_time = 0]
      ELSE IF msg.cmd = "stop"
      THEN [c EXCEPT !.stream_enabled = FALSE, !.last_frame_time = 0]
      ELSE IF msg.cmd = "subscribe"
      THEN [c EXCEPT !.telemetry_enabled = TRUE]
      ELSE IF msg.cmd = "unsubscribe"
      THEN [c EXCEPT !.telemetry_enabled = FALSE]
      ELSE c

\* the switch on Frame.type, and WS_RemoveClient where it is called; the payload
\* of a text frame is a start or a stop command, a pong is attempted twice
WS_Handler_Dispatch ==
    /\ hpc \in {"dispatch", "remove"}
    /\ IF hpc = "dispatch"
         THEN /\ IF Frame.type = "TEXT" /\ Client # 0
                   THEN \E msg \in {m \in Messages : IsCommand(m) = Frame.valid},
                           fps \in CmdFps :
                           Clients' = [Clients EXCEPT ![Client] =
                                          WS_ProcessMessage(@, msg, fps)]
                   ELSE UNCHANGED Clients
              /\ \E pongFails \in 0..2 :
                    hpc' = IF \/ Frame.type = "CLOSE"
                              \/ (Frame.type = "PING" /\ pongFails = 2)
                             THEN "remove" ELSE "idle"
              /\ UNCHANGED <<ClientCount, ClientsMutex>>
         ELSE \* WS_RemoveClient: xSemaphoreTake(ClientsMutex, portMAX_DELAY) first
              /\ ClientsMutex = "free"
              /\ LET i == LookupClient(Frame.fd)
                 IN  IF i # 0
                       THEN /\ Clients' = [Clients EXCEPT ![i].active = FALSE]
                            /\ ClientCount' = ClientCount - 1
                       ELSE UNCHANGED <<Clients, ClientCount>>
              /\ hpc' = "idle"
              /\ UNCHANGED ClientsMutex
    /\ IF hpc' = "idle"
         THEN Frame' = NoRequest /\ Client' = 0
         ELSE UNCHANGED <<Frame, Client>>
    /\ UNCHANGED <<netVars, frameVars, nfVars, srvVars, sockets,
                   isInitialized, ThermalFrame, sigVars, bcVars>>

\* HTTP_Handler_Image: xSemaphoreTake(ThermalFrame->mutex, 100 ms); without a
\* registered frame, or on the timeout, the answer is 503 and nothing changes
HTTP_Handler_Image_Take ==
    /\ hpc = "idle"
    /\ httpRunning
    /\ httpThermalFrame
    /\ nfMutex = "free"
    /\ nfMutex' = "httpd"
    /\ hpc' = "image"
    /\ UNCHANGED <<netVars, frameVars, NetworkFrame, lastComplete, srvVars, Frame, Client,
                   sockets, wsVars, sigVars, bcVars>>

\* ImageEncoder_Encode under the mutex, then xSemaphoreGive
HTTP_Handler_Image_Encode ==
    /\ hpc = "image"
    /\ nfMutex' = "free"
    /\ hpc' = "idle"
    /\ UNCHANGED <<netVars, frameVars, NetworkFrame, lastComplete, srvVars, Frame, Client,
                   sockets, wsVars, sigVars, bcVars>>

\* a GET /api/v1/telemetry request arrives
HTTPD_TelemetryRequest ==
    /\ hpc = "idle"
    /\ httpRunning
    /\ hpc' = "telemetry"
    /\ UNCHANGED <<netVars, frameVars, nfVars, srvVars, Frame, Client, sockets, wsVars,
                   sigVars, bcVars>>

\* HTTP_Handler_Telemetry: when a frame is registered, sensor_temp_c is read from
\* ThermalFrame->temp_avg; the frame's mutex is not taken
HTTP_Handler_Telemetry ==
    /\ hpc = "telemetry"
    /\ hpc' = "idle"
    /\ UNCHANGED <<netVars, frameVars, nfVars, srvVars, Frame, Client, sockets, wsVars,
                   sigVars, bcVars>>

(***************************************************************************)
(* WS_BroadcastTask                                                        *)
(***************************************************************************)
\* xQueueReceive(FrameReadyQueue, &Signal, 100 ms) returned a signal;
\* Now = esp_timer_get_time() / 1000; the three early "continue" conditions
WS_Broadcast_Receive ==
    /\ bpc = "recv"
    /\ FrameReadyQueue # <<>>
    /\ FrameReadyQueue' = Tail(FrameReadyQueue)
    /\ cycleK' = sigCount
    /\ sigCount' = 0
    /\ encCount' = 0
    /\ \E t \in TimeSamples : t >= Now /\ Now' = t
    /\ IF ~isInitialized \/ ~ThermalFrame \/ ClientCount = 0
         THEN /\ bpc' = "recv"
              /\ cycle' = "skipped"
         ELSE /\ bpc' = "take"
              /\ cycle' = "open"
    /\ UNCHANGED <<netVars, frameVars, nfVars, srvVars, httpdVars, wsVars,
                   bi, client_idx, client_fd, send_err, Encoded>>

\* xSemaphoreTake(ThermalFrame->mutex, 50 ms): taken, or the timeout and "continue"
WS_Broadcast_TakeFrame ==
    /\ bpc = "take"
    /\ IF nfMutex = "free"
         THEN /\ nfMutex' = "bcast"
              /\ bpc' = "encode"
              /\ UNCHANGED cycle
         ELSE /\ bpc' = "recv"
              /\ cycle' = "skipped"
              /\ UNCHANGED nfMutex
    /\ UNCHANGED <<netVars, frameVars, NetworkFrame, lastComplete, srvVars, httpdVars, wsVars, sigVars,
                   Now, bi, client_idx, client_fd, send_err, Encoded, cycleK, encCount>>

\* ImageEncoder_Encode under the frame mutex, xSemaphoreGive, "continue" on error
WS_Broadcast_Encode ==
    /\ bpc = "encode"
    /\ encCount' = encCount + 1
    /\ nfMutex' = "free"
    /\ \E ok \in BOOLEAN :
          IF ok
            THEN /\ Encoded' = NetworkFrame.pix
                 /\ bpc' = "lock"
                 /\ UNCHANGED cycle
            ELSE /\ Encoded' = 0
                 /\ bpc' = "recv"
                 /\ cycle' = "failed"
    /\ UNCHANGED <<netVars, frameVars, NetworkFrame, lastComplete, srvVars, httpdVars, wsVars,
                   sigVars, Now, bi, client_idx, client_fd, send_err, cycleK>>

\* xSemaphoreTake(ClientsMutex, portMAX_DELAY) before the loop over the clients
WS_Broadcast_Lock ==
    /\ bpc = "lock"
    /\ ClientsMutex = "free"
    /\ ClientsMutex' = "bcast"
    /\ bi' = 1
    /\ bpc' = "scan"
    /\ UNCHANGED <<netVars, frameVars, nfVars, srvVars, httpdVars, isInitialized, Clients, ClientCount,
                   ThermalFrame, sigVars, Now, client_idx, client_fd, send_err, Encoded,
                   cycle, cycleK, encCount>>

\* the entry is streaming and its frame interval has elapsed
Due(s) ==
    /\ Clients[s].active
    /\ Clients[s].stream_enabled
    /\ ~((Now - Clients[s].last_frame_time) < (1000 \div Clients[s].stream_fps))

\* WS_SendBinary: up to three httpd_ws_send_frame_async attempts; TRUE when all fail
WS_SendBinary_Fails(fd, failures) == fd \in FailingFds \/ failures = 3

\* the loop over the clients: skip to the next due entry and release the mutex for
\* the send; send; retake the mutex and apply the result; after the last entry give
\* the mutex and free the image
WS_Broadcast_Clients ==
    /\ bpc \in {"scan", "send", "relock"}
    /\ CASE bpc = "scan" ->
              LET j == FirstSlot({s \in Slots : s >= bi /\ Due(s)})
              IN  /\ ClientsMutex' = "free"
                  /\ IF j # 0
                       THEN /\ client_idx' = j
                            /\ client_fd' = Clients[j].fd
                            /\ bpc' = "send"
                            /\ UNCHANGED <<Encoded, cycle>>
                       ELSE /\ Encoded' = 0
                            /\ bpc' = "recv"
                            /\ cycle' = "done"
                            /\ UNCHANGED <<client_idx, client_fd>>
                  /\ UNCHANGED <<Clients, ClientCount, bi, send_err>>
         [] bpc = "send" ->
              /\ \E failures \in 0..3 :
                    send_err' = WS_SendBinary_Fails(client_fd, failures)
              /\ bpc' = "relock"
              /\ UNCHANGED <<Clients, ClientCount, ClientsMutex, bi, client_idx, client_fd,
                             Encoded, cycle>>
         [] bpc = "relock" ->
              /\ ClientsMutex = "free"
              /\ ClientsMutex' = "bcast"
              /\ IF Clients[client_idx].active /\ Clients[client_idx].fd = client_fd
                   THEN IF ~send_err
                          THEN /\ Clients' = [Clients EXCEPT
                                                ![client_idx].last_frame_time = Now]
                               /\ UNCHANGED ClientCount
                          ELSE /\ Clients' = [Clients EXCEPT ![client_idx].active = FALSE]
                               /\ ClientCount' = ClientCount - 1
                   ELSE UNCHANGED <<Clients, ClientCount>>
              /\ bi' = client_idx + 1
              /\ bpc' = "scan"
              /\ UNCHANGED <<send_err, client_idx, client_fd, Encoded, cycle>>
    /\ UNCHANGED <<netVars, frameVars, nfVars, srvVars, httpdVars, isInitialized, ThermalFrame,
                   sigVars, Now, cycleK, encCount>>

(***************************************************************************)
(* WiFi driver as the network manager and the provisioning module use it   *)
(***************************************************************************)
\* everything outside the network part that the network part does not write
srvCore == <<frameVars, nfVars, httpThermalFrame, httpdVars, Clients, ClientCount,
             ClientsMutex, ThermalFrame, sigVars, bcVars, lifeVars, initVars, hasNetwork,
             roiVars>>
srvRest == <<srvCore, credVars>>

\* esp_wifi_set_mode(mode); esp_wifi_start(): a stopped driver posts its start
\* events, a started one posts nothing
StartEvents(mode) ==
    IF wifi = "stopped"
      THEN IF mode = "APSTA" THEN <<"AP_START", "STA_START">> ELSE <<"STA_START">>
      ELSE <<>>

Started == IF wifi = "stopped" THEN "started" ELSE wifi

\* esp_wifi_connect(): an attempt begins when the station is started, not yet
\* connecting or connected, and the station configuration names an SSID
Connect(w) == IF w = "started" /\ staSSID # "" THEN "connecting" ELSE w

\* the access point answers the pending attempt: association and address, or a
\* failure reported as WIFI_EVENT_STA_DISCONNECTED
WiFi_AttemptResult ==
    /\ wifi = "connecting"
    /\ \E ok \in {TRUE} \cup (IF failed <= Retries THEN {FALSE} ELSE {}) :
          IF ok
            THEN /\ wifi' = "connected"
                 /\ evq' = evq \o <<"STA_CONNECTED", "GOT_IP">>
                 /\ failed' = 0
            ELSE /\ wifi' = "started"
                 /\ evq' = Append(evq, "STA_DISCONNECTED")
                 /\ failed' = failed + 1
    /\ UNCHANGED <<srvRest, tzVars, srvVars, isInitialized, cfgVars, taskVars, mgrVars, provVars,
                   drops, requests, postVars>>

\* an established link is lost
WiFi_LinkLost ==
    /\ wifi = "connected"
    /\ drops < MaxDrops
    /\ drops' = drops + 1
    /\ wifi' = "started"
    /\ evq' = Append(evq, "STA_DISCONNECTED")
    /\ UNCHANGED <<srvRest, tzVars, srvVars, isInitialized, cfgVars, taskVars, mgrVars, provVars,
                   failed, requests, postVars>>

\* NETWORK_EVENT_OPEN_WIFI_REQUEST is posted to the default event loop
Post_OpenWiFiRequest ==
    /\ requests < MaxRequests
    /\ requests' = requests + 1
    /\ evq' = Append(evq, "OPEN_WIFI_REQUEST")
    /\ UNCHANGED <<srvRest, tzVars, srvVars, isInitialized, cfgVars, taskVars, mgrVars, provVars,
                   wifi, failed, drops, postVars>>

(***************************************************************************)
(* Provisioning (provisioning.cpp) and NetworkManager_StartSTA             *)
(***************************************************************************)
\* Provisioning_Start posting to queue q: use_captive_portal is always true, so
\* the SoftAP, the HTTP server and the DNS server are started and the function
\* returns before the xTimerStart of the timeout timer
Provisioning_Start(q) ==
    IF active
      THEN /\ evq' = q
           /\ UNCHANGED <<active, elapsed, httpRunning, isInitialized, wifi>>
      ELSE /\ wifi' = Started
           /\ evq' = q \o StartEvents("APSTA")
           /\ httpRunning' = TRUE
           /\ isInitialized' = TRUE
           /\ active' = TRUE
           /\ elapsed' = 0

\* Provisioning_Stop: captive portal servers stopped and deinitialized
Provisioning_Stop ==
    IF active
      THEN /\ httpRunning' = FALSE
           /\ isInitialized' = FALSE
           /\ active' = FALSE
      ELSE UNCHANGED <<httpRunning, isInitialized, active>>

\* NetworkManager_StartSTA with the station configuration built from the SSID the
\* application context holds
NetworkManager_StartSTA_Stored(q) ==
    /\ RetryCount' = 0
    /\ wifi' = Started
    /\ evq' = q \o StartEvents("STA")
    /\ ManagerState' = "CONNECTING"
    /\ failed' = 0
    /\ staSSID' = StoredSSID

\* NetworkManager_StartSTA posting to queue q: the station configuration is built
\* from the manager's STA_Config
NetworkManager_StartSTA(q) ==
    /\ RetryCount' = 0
    /\ wifi' = Started
    /\ evq' = q \o StartEvents("STA")
    /\ ManagerState' = "CONNECTING"
    /\ failed' = 0
    /\ staSSID' = MgrSSID

\* one second of provisioning passes; on_Timeout_Timer_Handler notifies the network
\* task when the running timer reaches timeout_sec
Prov_Tick ==
    /\ active
    /\ elapsed <= timeout_sec
    /\ elapsed' = elapsed + 1
    /\ IF timerActive /\ elapsed' >= timeout_sec
         THEN /\ NotificationValue' = TRUE
              /\ timerActive' = FALSE
         ELSE UNCHANGED <<NotificationValue, timerActive>>
    /\ UNCHANGED <<srvRest, tzVars, srvVars, isInitialized, cfgVars, ApplicationStarted, npc,
                   WaitingForWiFiRequest, TaskState, EventBits, mgrVars, active, drvVars,
                   postVars>>

\* WiFiSettings.SSID of the settings manager: the SSID loaded at boot, which
\* Network_Task_Init copied into the application context, until a provisioning
\* request replaces it (SettingsManager_UpdateWiFi)
WiFiSettings_SSID == IF rxSSID # "" THEN rxSSID ELSE StoredSSID

\* Provision_Handler_Connect of the captive portal: a request with string ssid
\* and password sets the manager's credentials and saves them to the settings; when
\* the save succeeds NETWORK_EVENT_PROV_SUCCESS is posted
Provision_Handler_Connect ==
    /\ active
    /\ httpRunning
    /\ provPosts < MaxProvPosts
    /\ provPosts' = provPosts + 1
    /\ \E ssid \in ProvSSIDs, SaveError \in {"ESP_OK", "ESP_FAIL"} :
          /\ MgrSSID' = ssid
          /\ rxSSID' = ssid
          /\ evq' = IF SaveError = "ESP_OK" THEN Append(evq, "PROV_SUCCESS") ELSE evq
    /\ UNCHANGED <<srvCore, staSSID, tzVars, srvVars, isInitialized, cfgVars, taskVars,
                   mgrVars, provVars, wifi, failed, drops, requests, postVars>>

(***************************************************************************)
(* Handlers on the default event loop                                      *)
(***************************************************************************)
\* the event loop task runs one handler at a time
LoopFree == regpc \notin {"pending", "ws"} /\ evpc = "idle"

\* on_GUI_Event_Handler, GUI_EVENT_APP_STARTED
on_GUI_Event_Handler ==
    /\ LoopFree
    /\ ~ApplicationStarted
    /\ ApplicationStarted' = TRUE
    /\ UNCHANGED <<srvRest, tzVars, srvVars, isInitialized, cfgVars, npc, WaitingForWiFiRequest,
                   TaskState, EventBits, NotificationValue, mgrVars, provVars, drvVars,
                   postVars>>

\* on_WiFi_Event (networkManager.cpp)
on_WiFi_Event ==
    /\ LoopFree
    /\ evq # <<>>
    /\ Head(evq) \in {"STA_START", "STA_CONNECTED", "STA_DISCONNECTED", "AP_START"}
    /\ LET ev == Head(evq)
           q == Tail(evq)
       IN  IF ev = "STA_START"
             THEN /\ wifi' = Connect(wifi)
                  /\ evq' = q
                  /\ UNCHANGED mgrVars
             ELSE IF ev = "STA_CONNECTED"
             THEN /\ RetryCount' = 0
                  /\ evq' = q
                  /\ UNCHANGED <<ManagerState, wifi>>
             ELSE IF ev = "STA_DISCONNECTED"
             THEN \* State = DISCONNECTED, post WIFI_DISCONNECTED, then retry or give up;
                  \* RetryCount++ is an argument of ESP_LOGD
                  /\ evq' = Append(q, "WIFI_DISCONNECTED")
                  /\ IF RetryCount < Retries
                       THEN /\ RetryCount' = IF LogDebug THEN (RetryCount + 1) % 256
                                                         ELSE RetryCount
                            /\ wifi' = Connect(wifi)
                            /\ ManagerState' = "CONNECTING"
                       ELSE /\ ManagerState' = "ERROR"
                            /\ UNCHANGED <<RetryCount, wifi>>
             ELSE \* WIFI_EVENT_AP_START
                  /\ ManagerState' = "AP_STARTED"
                  /\ evq' = q
                  /\ UNCHANGED <<RetryCount, wifi>>
    /\ UNCHANGED <<srvRest, tzVars, srvVars, isInitialized, cfgVars, taskVars, provVars,
                   failed, drops, requests, postVars>>

\* on_IP_Event, IP_EVENT_STA_GOT_IP
on_IP_Event ==
    /\ LoopFree
    /\ evq # <<>>
    /\ Head(evq) = "GOT_IP"
    /\ ManagerState' = "CONNECTED"
    /\ evq' = Append(Tail(evq), "WIFI_GOT_IP")
    /\ UNCHANGED <<srvRest, tzVars, srvVars, isInitialized, cfgVars, taskVars, RetryCount, provVars,
                   wifi, failed, drops, requests, postVars>>

\* on_Network_Event_Handler of the network task; for SERVER_STARTED the handler of
\* the GUI task, which registers the NetworkFrame
on_Network_Event_Handler ==
    /\ LoopFree
    /\ evq # <<>>
    /\ Head(evq) \in {"WIFI_DISCONNECTED", "WIFI_GOT_IP", "PROV_TIMEOUT", "PROV_SUCCESS",
                      "OPEN_WIFI_REQUEST", "SERVER_STARTED", "SET_TZ"}
    /\ evq' = Tail(evq)
    /\ IF Head(evq) = "SET_TZ"
         THEN \* Timezone = static_cast<const char *>(p_Data): the pointer to the
              \* loop's copy is kept, the copy is freed when the handlers return
              /\ Timezone' = "copy"
              /\ tzDelivered' = evData
              /\ evpc' = "free"
         ELSE UNCHANGED <<Timezone, tzDelivered, evpc>>
    /\ LET ev == Head(evq)
       IN  IF ev = "WIFI_DISCONNECTED"
             THEN /\ TaskState' = "DISCONNECTED"
                  /\ EventBits' = EventBits \cup {"WIFI_DISCONNECTED"}
                  /\ UNCHANGED <<httpRunning, isInitialized, active, regpc>>
             ELSE IF ev = "WIFI_GOT_IP"
             THEN /\ TaskState' = "CONNECTED"
                  /\ EventBits' = EventBits \cup {"WIFI_CONNECTED"}
                  /\ UNCHANGED <<httpRunning, isInitialized, active, regpc>>
             ELSE IF ev = "PROV_TIMEOUT"
             THEN /\ Provisioning_Stop
                  /\ UNCHANGED <<TaskState, EventBits, regpc>>
             ELSE IF ev = "OPEN_WIFI_REQUEST"
             THEN /\ EventBits' = EventBits \cup {"OPEN_WIFI_REQUEST"}
                  /\ UNCHANGED <<TaskState, httpRunning, isInitialized, active, regpc>>
             ELSE IF ev = "PROV_SUCCESS"
             THEN /\ EventBits' = EventBits \cup {"PROV_SUCCESS"}
                  /\ UNCHANGED <<TaskState, httpRunning, isInitialized, active, regpc>>
             ELSE IF ev = "SET_TZ"
             THEN /\ EventBits' = EventBits \cup {"SNTP_TIMEZONE_SET"}
                  /\ UNCHANGED <<TaskState, httpRunning, isInitialized, active, regpc>>
             ELSE \* NETWORK_EVENT_SERVER_STARTED
                  /\ regpc' = "pending"
                  /\ UNCHANGED <<TaskState, EventBits, httpRunning, isInitialized, active>>
    /\ UNCHANGED <<srvRest, evData, SystemTimezone, tzExpected, tzPosts, httpThermalFrame,
                   cfgVars, ApplicationStarted, npc, WaitingForWiFiRequest, NotificationValue,
                   mgrVars, timerActive, elapsed, wifi, failed, drops, requests, postVars>>

\* the event loop frees its copy of the payload once the handlers have returned
EventLoop_FreeData ==
    /\ evpc = "free"
    /\ evpc' = "idle"
    /\ evData' = "freed"
    /\ UNCHANGED <<srvRest, srvVars, isInitialized, cfgVars, taskVars, mgrVars, provVars,
                   drvVars, postVars, Timezone, SystemTimezone, tzDelivered, tzExpected,
                   tzPosts>>

\* HTTP_Handler_Time: esp_event_post(NETWORK_EVENT_SET_TZ, timezone->valuestring,
\* strlen + 1) copies the string into the event, then cJSON_Delete frees the original
HTTP_Handler_Time ==
    /\ hpc = "idle"
    /\ httpRunning
    /\ tzPosts < MaxTzPosts
    /\ evpc = "idle"
    /\ \A i \in 1..Len(evq) : evq[i] # "SET_TZ"
    /\ \E tz \in TzNames : evData' = tz
    /\ evq' = Append(evq, "SET_TZ")
    /\ tzPosts' = tzPosts + 1
    /\ UNCHANGED <<srvRest, srvVars, isInitialized, cfgVars, taskVars, mgrVars, provVars,
                   wifi, failed, drops, requests, postVars, evpc, Timezone, SystemTimezone,
                   tzDelivered, tzExpected>>

(***************************************************************************)
(* Task_Network                                                            *)
(***************************************************************************)
\* a start that does not wait for the application
Task_Network_Start_NoGate ==
    /\ npc = "gate"
    /\ npc' = "loop"
    /\ WaitingForWiFiRequest' = (AutoConnect = FALSE)
    /\ IF AutoConnect = FALSE
         THEN IF StoredSSID = ""
                THEN /\ Provisioning_Start(evq)
                     /\ TaskState' = "PROVISIONING"
                     /\ UNCHANGED <<mgrVars, failed, staSSID>>
                ELSE /\ NetworkManager_StartSTA(evq)
                     /\ UNCHANGED <<TaskState, httpRunning, isInitialized, active, elapsed>>
         ELSE /\ TaskState' = "IDLE"
              /\ UNCHANGED <<mgrVars, failed, httpRunning, isInitialized, active, elapsed,
                             evq, wifi, staSSID>>
    /\ UNCHANGED <<srvCore, MgrSSID, rxSSID, provPosts, tzVars, httpThermalFrame, regpc, cfgVars, ApplicationStarted, EventBits,
                   NotificationValue, timerActive, drops, requests, postVars>>

\* the wait for ApplicationStarted, then the decision made before the loop
Task_Network_Start ==
    /\ npc = "gate"
    /\ ApplicationStarted
    /\ npc' = "loop"
    /\ WaitingForWiFiRequest' = (AutoConnect = FALSE)
    /\ IF AutoConnect = FALSE
         THEN IF StoredSSID = ""
                THEN /\ Provisioning_Start(evq)
                     /\ TaskState' = "PROVISIONING"
                     /\ UNCHANGED <<mgrVars, failed, staSSID>>
                ELSE /\ NetworkManager_StartSTA(evq)
                     /\ UNCHANGED <<TaskState, httpRunning, isInitialized, active, elapsed>>
         ELSE /\ TaskState' = "IDLE"
              /\ UNCHANGED <<mgrVars, failed, httpRunning, isInitialized, active, elapsed,
                             evq, wifi, staSSID>>
    /\ UNCHANGED <<srvCore, MgrSSID, rxSSID, provPosts, tzVars, httpThermalFrame, regpc, cfgVars, ApplicationStarted, EventBits,
                   NotificationValue, timerActive, drops, requests, postVars>>

\* what can fail when the server is brought up: the mutex or queue of
\* WebSocket_Handler_Init, httpd_start of HTTP_Server_Start
ServerFailures == {"none", "WebSocket_Handler_Init", "httpd_start"}

\* NetworkManager_StartServer: Server_Init, then Server_Start, both results dropped.
\* An initialized handler and a running server return early. When
\* WebSocket_Handler_Init fails Server_Init deinitializes the HTTP server and
\* HTTP_Server_Start refuses to start; when httpd_start fails nothing runs
NetworkManager_StartServer(fail) ==
    IF ~isInitialized /\ fail = "WebSocket_Handler_Init"
      THEN /\ isInitialized' = FALSE
           /\ httpRunning' = FALSE
      ELSE /\ isInitialized' = TRUE
           /\ httpRunning' = (httpRunning \/ fail # "httpd_start")

\* the test of the WIFI_DISCONNECTED arm made on the state of provisioning alone
Provisioning_Wanted_NoSSID == ~active

\* the test of the WIFI_DISCONNECTED arm: provisioning is not active and the
\* application context holds no SSID
Provisioning_Wanted == ~active /\ StoredSSID = ""

\* one iteration of the loop that finds a notification or an event bit: the
\* notification becomes NETWORK_TASK_PROV_TIMEOUT, then the first bit of the
\* else-if chain is handled and cleared
Task_Network_Loop ==
    /\ npc = "loop"
    /\ LET Bits == IF NotificationValue THEN EventBits \cup {"PROV_TIMEOUT"} ELSE EventBits
       IN  /\ Bits # {}
           /\ NotificationValue' = FALSE
           /\ IF "STOP_REQUEST" \in Bits
                THEN \* break, then Provisioning_Stop, NetworkManager_Stop, Running = false
                     /\ Provisioning_Stop
                     /\ wifi' = "stopped"
                     /\ ManagerState' = "IDLE"
                     /\ NetRunning' = FALSE
                     /\ npc' = "stopped"
                     /\ EventBits' = Bits \ {"STOP_REQUEST"}
                     /\ UNCHANGED <<WaitingForWiFiRequest, TaskState, RetryCount, elapsed, evq,
                                    failed, postVars, SystemTimezone, tzExpected, staSSID, hasNetwork>>
                ELSE IF "WIFI_CONNECTED" \in Bits
                THEN \* TimeManager_OnNetworkConnected; NetworkManager_StartServer always
                     \* returns ESP_OK, so SERVER_STARTED is posted and SERVER_ERROR never
                     /\ \E fail \in ServerFailures : NetworkManager_StartServer(fail)
                     /\ evq' = Append(evq, "SERVER_STARTED")
                     /\ nServerStarted' = nServerStarted + 1
                     /\ hasNetwork' = TRUE
                     /\ EventBits' = Bits \ {"WIFI_CONNECTED"}
                     /\ UNCHANGED <<WaitingForWiFiRequest, TaskState, mgrVars, active, elapsed,
                                    wifi, failed, nProvTimeout, SystemTimezone, tzExpected,
                                    npc, NetRunning, staSSID>>
                ELSE IF "WIFI_DISCONNECTED" \in Bits
                THEN \* TimeManager_OnNetworkDisconnected, then provisioning when it is not
                     \* active and the application context holds no SSID
                     /\ IF Provisioning_Wanted
                          THEN Provisioning_Start(evq)
                          ELSE UNCHANGED <<httpRunning, isInitialized, active, elapsed,
                                           evq, wifi>>
                     /\ hasNetwork' = FALSE
                     /\ EventBits' = Bits \ {"WIFI_DISCONNECTED"}
                     /\ UNCHANGED <<WaitingForWiFiRequest, TaskState, mgrVars, failed, postVars,
                                    SystemTimezone, tzExpected, npc, NetRunning, staSSID>>
                ELSE IF "PROV_SUCCESS" \in Bits
                THEN \* Provisioning_Stop, then vTaskDelay(500 ms); the bit is cleared
                     \* after NetworkManager_StartSTA
                     /\ Provisioning_Stop
                     /\ npc' = "provwait"
                     /\ EventBits' = Bits
                     /\ UNCHANGED <<WaitingForWiFiRequest, TaskState, mgrVars, elapsed, evq,
                                    wifi, failed, postVars, SystemTimezone, tzExpected,
                                    NetRunning, staSSID, hasNetwork>>
                ELSE IF "PROV_TIMEOUT" \in Bits
                THEN /\ Provisioning_Stop
                     /\ evq' = Append(evq, "PROV_TIMEOUT")
                     /\ nProvTimeout' = nProvTimeout + 1
                     /\ EventBits' = Bits \ {"PROV_TIMEOUT"}
                     /\ UNCHANGED <<WaitingForWiFiRequest, TaskState, mgrVars, elapsed, wifi,
                                    failed, nServerStarted, SystemTimezone, tzExpected,
                                    npc, NetRunning, staSSID, hasNetwork>>
                ELSE IF "SNTP_TIMEZONE_SET" \in Bits
                THEN \* memcpy(&SystemSettings.Timezone, _NetworkTask_State.Timezone, ...)
                     \* reads through the kept pointer
                     /\ \E read \in (IF evData = "freed" THEN FreedContents ELSE {evData}) :
                           SystemTimezone' = read
                     /\ tzExpected' = tzDelivered
                     /\ EventBits' = Bits \ {"SNTP_TIMEZONE_SET"}
                     /\ UNCHANGED <<WaitingForWiFiRequest, TaskState, mgrVars, failed,
                                    httpRunning, isInitialized, active, elapsed, evq, wifi,
                                    postVars, npc, NetRunning, staSSID, hasNetwork>>
                ELSE \* NETWORK_TASK_OPEN_WIFI_REQUEST
                     /\ IF WaitingForWiFiRequest
                          THEN /\ WaitingForWiFiRequest' = FALSE
                               /\ IF StoredSSID = ""
                                    THEN /\ Provisioning_Start(evq)
                                         /\ TaskState' = "PROVISIONING"
                                         /\ UNCHANGED <<mgrVars, failed, staSSID>>
                                    ELSE /\ NetworkManager_StartSTA(evq)
                                         /\ UNCHANGED <<TaskState, httpRunning, isInitialized,
                                                        active, elapsed>>
                          ELSE UNCHANGED <<WaitingForWiFiRequest, TaskState, mgrVars, failed,
                                           httpRunning, isInitialized, active, elapsed,
                                           evq, wifi, staSSID>>
                     /\ EventBits' = Bits \ {"OPEN_WIFI_REQUEST"}
                     /\ UNCHANGED <<postVars, SystemTimezone, tzExpected, npc, NetRunning,
                                    hasNetwork>>
    /\ UNCHANGED <<initVars, roiVars, MgrSSID, rxSSID, provPosts,
                   frameVars, nfVars, httpdVars, Clients, ClientCount, ClientsMutex,
                   ThermalFrame, sigVars, bcVars,
                   LeptonBits, LeptonRunning, dpc, DevicesBits, DevicesRunning, stopping, polls,
                   stopRet, stopExhausted,
                   evData, evpc, Timezone, tzDelivered, tzPosts, httpThermalFrame,
                   regpc, cfgVars, ApplicationStarted, timerActive, drops, requests>>

\* the PROV_SUCCESS arm after its delay: NetworkManager_StartSTA with the
\* credentials the manager holds, then the bit is cleared
Task_Network_ProvConnect ==
    /\ npc = "provwait"
    /\ NetworkManager_StartSTA(evq)
    /\ EventBits' = EventBits \ {"PROV_SUCCESS"}
    /\ npc' = "loop"
    /\ UNCHANGED <<srvCore, MgrSSID, rxSSID, provPosts, tzVars, srvVars, isInitialized,
                   cfgVars, ApplicationStarted, WaitingForWiFiRequest, TaskState,
                   NotificationValue, provVars, drops, requests, postVars>>

(***************************************************************************)
(* Specification of the frame pipeline                                     *)
(***************************************************************************)
InitPipeline ==
    /\ RawFrameQueue = <<>>
    /\ rawCount = 0
    /\ RawFrame = 0
    /\ WriteBufferIdx = 0
    /\ CurrentReadBuffer = 0
    /\ BufferMutex = "free"
    /\ Lepton_FrameEventQueue = <<>>
    /\ pubLog = <<>>
    /\ nCoalesced = 0
    /\ gpc = "poll"
    /\ LeptonEvent = NoFrame
    /\ guiSkipped = FALSE
    /\ NetworkFrame = [pix |-> 0, meta |-> 0]
    /\ nfMutex = "free"
    /\ lastComplete = 0

\* the capture task past its warm-up, at the xQueueReceive of its loop
InitCapture ==
    /\ InitPipeline
    /\ lpc = "wait"

\* the WebSocket handler after WebSocket_Handler_Init, the httpd task idle, the
\* broadcast task at its xQueueReceive
InitServer ==
    /\ httpThermalFrame = FALSE
    /\ hpc = "idle"
    /\ Frame = NoRequest
    /\ Client = 0
    /\ sockets = {}
    /\ Clients = [s \in Slots |-> NoClient]
    /\ ClientCount = 0
    /\ ClientsMutex = "free"
    /\ ThermalFrame = FALSE
    /\ FrameReadyQueue = <<>>
    /\ bpc = "recv"
    /\ Now = 0
    /\ bi = 1
    /\ client_idx = 0
    /\ client_fd = 0
    /\ send_err = FALSE
    /\ Encoded = 0
    /\ sigCount = 0
    /\ cycle = "none"
    /\ cycleK = 0
    /\ encCount = 0

\* no timezone request made yet
InitTimezone ==
    /\ evData = "none"
    /\ evpc = "idle"
    /\ Timezone = "null"
    /\ SystemTimezone = "none"
    /\ tzDelivered = "none"
    /\ tzExpected = "none"
    /\ tzPosts = 0

(***************************************************************************)
(* Task initialisation: GUI_Task_Init, DevicesTask_Init, Lepton_Task_Init,  *)
(* Network_Task_Init                                                       *)
(***************************************************************************)
InitTasks == {"gui", "devices", "lepton", "network"}

\* what each Init creates or registers, in the order of the source
GUISteps == <<"Helper", "ui", "handlers", "ThermalCanvasBuffer", "GradientCanvasBuffer",
              "NetworkRGBBuffer", "NetworkFrame.mutex">>
DevicesSteps == <<"EventGroup", "DevicesManager", "handler">>
LeptonSteps == <<"EventGroup", "BufferMutex", "Lepton", "RGB_Buffer[0]", "RGB_Buffer[1]",
                 "RawFrameQueue", "handler">>
NetworkSteps == <<"EventGroup", "handler.network", "handler.gui", "NetworkManager",
                  "Provisioning">>

Range(seq) == {seq[i] : i \in 1..Len(seq)}

\* the creations that can fail with an error return: allocations and driver
\* initialisations (GUI_Helper_Init is under ESP_ERROR_CHECK, ui_init is void,
\* the results of esp_event_handler_register are not looked at)
GUIFailures == {"ThermalCanvasBuffer", "GradientCanvasBuffer", "NetworkRGBBuffer",
                "NetworkFrame.mutex"}
DevicesFailures == {"EventGroup", "DevicesManager"}
LeptonFailures == {"EventGroup", "BufferMutex", "Lepton", "RGB_Buffer[0]", "RGB_Buffer[1]",
                   "RawFrameQueue"}
\* Network_Task_Init goes on when Provisioning_Init fails, which is not a failure here
NetworkFailures == {"nvs", "EventGroup", "handler.network", "handler.gui", "NetworkManager"}

\* GUI_Task_Init when the creations in fails fail: the three buffers are
\* allocated together and tested one after the other
GUI_Task_Init_Result(fails) ==
    LET early == {"Helper", "ui", "handlers"}
        bufs  == {"ThermalCanvasBuffer", "GradientCanvasBuffer", "NetworkRGBBuffer"} \ fails
    IN  IF "ThermalCanvasBuffer" \in fails
          THEN [ret |-> "ESP_ERR_NO_MEM", held |-> early \cup bufs]
          ELSE IF "GradientCanvasBuffer" \in fails
          THEN [ret |-> "ESP_ERR_NO_MEM",
                held |-> (early \cup bufs) \ {"ThermalCanvasBuffer"}]
          ELSE IF "NetworkRGBBuffer" \in fails
          THEN [ret |-> "ESP_ERR_NO_MEM",
                held |-> (early \cup bufs) \ {"ThermalCanvasBuffer", "GradientCanvasBuffer"}]
          ELSE IF "NetworkFrame.mutex" \in fails
          THEN [ret |-> "ESP_ERR_NO_MEM", held |-> early \cup bufs]
          ELSE [ret |-> "ESP_OK", held |-> Range(GUISteps)]

\* DevicesTask_Init when the creations in fails fail
DevicesTask_Init_Result(fails) ==
    IF "EventGroup" \in fails
      THEN [ret |-> "ESP_ERR_NO_MEM", held |-> {}]
      ELSE IF "DevicesManager" \in fails
      THEN [ret |-> "ESP_FAIL", held |-> {"EventGroup"}]
      ELSE [ret |-> "ESP_OK", held |-> Range(DevicesSteps)]

\* Lepton_Task_Init when the creations in fails fail: each error path deletes
\* what was made before it; the two RGB buffers are allocated together
Lepton_Task_Init_Result(fails) ==
    LET rgb == {"RGB_Buffer[0]", "RGB_Buffer[1]"}
    IN  IF "EventGroup" \in fails
          THEN [ret |-> "ESP_ERR_NO_MEM", held |-> {}]
          ELSE IF "BufferMutex" \in fails
          THEN [ret |-> "ESP_ERR_NO_MEM", held |-> {"EventGroup"} \ {"EventGroup"}]
          ELSE IF "Lepton" \in fails
          THEN [ret |-> "ESP_FAIL",
                held |-> {"EventGroup", "BufferMutex"} \ {"BufferMutex", "EventGroup"}]
          ELSE IF rgb \cap fails # {}
          THEN [ret |-> "ESP_ERR_NO_MEM",
                held |-> ({"EventGroup", "BufferMutex", "Lepton"} \cup (rgb \ fails))
                         \ ((rgb \ fails) \cup {"Lepton", "BufferMutex", "EventGroup"})]
          ELSE IF "RawFrameQueue" \in fails
          THEN [ret |-> "ESP_ERR_NO_MEM",
                held |-> ({"EventGroup", "BufferMutex", "Lepton"} \cup rgb)
                         \ (rgb \cup {"Lepton", "BufferMutex", "EventGroup"})]
          ELSE [ret |-> "ESP_OK", held |-> Range(LeptonSteps)]

\* Network_Task_Init when the creations in fails fail: a failed registration deletes
\* the event group and returns Error, which still holds the ESP_OK of
\* nvs_flash_init; the second registration is not attempted when the first fails
Network_Task_Init_Result(fails) ==
    IF "nvs" \in fails
      THEN [ret |-> "ESP_FAIL", held |-> {}]
      ELSE IF "EventGroup" \in fails
      THEN [ret |-> "ESP_ERR_NO_MEM", held |-> {}]
      ELSE IF "handler.network" \in fails
      THEN [ret |-> "ESP_OK", held |-> {"EventGroup"} \ {"EventGroup"}]
      ELSE IF "handler.gui" \in fails
      THEN [ret |-> "ESP_OK", held |-> {"EventGroup", "handler.network"} \ {"EventGroup"}]
      ELSE IF "NetworkManager" \in fails
      THEN [ret |-> "ESP_FAIL",
            held |-> {"EventGroup", "handler.network", "handler.gui"}
                     \ {"handler.network", "handler.gui", "EventGroup"}]
      ELSE [ret |-> "ESP_OK", held |-> Range(NetworkSteps)]

\* the rest of the model does not take part in initialisation
initRest == <<frameVars, streamVars, cfgVars, taskVars, mgrVars, provVars, drvVars, postVars,
              tzVars, lifeVars, credVars, hasNetwork, roiVars>>

GUI_Task_Init ==
    /\ initRet["gui"] = "none"
    /\ \E fails \in SUBSET GUIFailures :
          LET r == GUI_Task_Init_Result(fails)
          IN  /\ initRet' = [initRet EXCEPT !["gui"] = r.ret]
              /\ held' = [held EXCEPT !["gui"] = r.held]
    /\ UNCHANGED initRest

DevicesTask_Init ==
    /\ initRet["devices"] = "none"
    /\ \E fails \in SUBSET DevicesFailures :
          LET r == DevicesTask_Init_Result(fails)
          IN  /\ initRet' = [initRet EXCEPT !["devices"] = r.ret]
              /\ held' = [held EXCEPT !["devices"] = r.held]
    /\ UNCHANGED initRest

Lepton_Task_Init ==
    /\ initRet["lepton"] = "none"
    /\ \E fails \in SUBSET LeptonFailures :
          LET r == Lepton_Task_Init_Result(fails)
          IN  /\ initRet' = [initRet EXCEPT !["lepton"] = r.ret]
              /\ held' = [held EXCEPT !["lepton"] = r.held]
    /\ UNCHANGED initRest

Network_Task_Init ==
    /\ initRet["network"] = "none"
    /\ \E fails \in SUBSET NetworkFailures :
          LET r == Network_Task_Init_Result(fails)
          IN  /\ initRet' = [initRet EXCEPT !["network"] = r.ret]
              /\ held' = [held EXCEPT !["network"] = r.held]
    /\ UNCHANGED initRest

\* what the Init of task t holds when nothing failed
InitSteps(t) ==
    IF t = "gui" THEN Range(GUISteps)
    ELSE IF t = "devices" THEN Range(DevicesSteps)
    ELSE IF t = "lepton" THEN Range(LeptonSteps)
    ELSE Range(NetworkSteps)

\* every Init has returned ESP_OK
InitDone ==
    /\ initRet = [t \in InitTasks |-> "ESP_OK"]
    /\ held = [t \in InitTasks |-> InitSteps(t)]

\* every task created by its Start function (Running = true), no request bit
\* set, no Stop call made
Tasks == {"lepton", "network", "devices"}

InitLifecycle ==
    /\ LeptonBits = {}
    /\ LeptonRunning = TRUE
    /\ NetRunning = TRUE
    /\ dpc = "loop"
    /\ DevicesBits = {}
    /\ DevicesRunning = TRUE
    /\ stopping = "none"
    /\ polls = 0
    /\ stopRet = [t \in Tasks |-> "none"]
    /\ stopExhausted = [t \in Tasks |-> FALSE]
    /\ ROI = <<0, 0>>
    /\ roipc = "idle"
    /\ roiPosts = 0
    /\ roiApplied = <<0, 0>>

\* the network task created and waiting for the application, the manager and the
\* provisioning module initialized, the WiFi driver stopped
InitNetwork ==
    /\ ApplicationStarted = FALSE
    /\ npc = "gate"
    /\ WaitingForWiFiRequest = FALSE
    /\ TaskState = "IDLE"
    /\ EventBits = {}
    /\ NotificationValue = FALSE
    /\ ManagerState = "IDLE"
    /\ RetryCount = 0
    /\ active = FALSE
    /\ timerActive = FALSE
    /\ elapsed = 0
    /\ evq = <<>>
    /\ wifi = "stopped"
    /\ failed = 0
    /\ drops = 0
    /\ requests = 0
    /\ nServerStarted = 0
    /\ nProvTimeout = 0
    /\ InitTimezone
    /\ InitLifecycle
    /\ MgrSSID = StoredSSID
    /\ staSSID = ""
    /\ rxSSID = ""
    /\ provPosts = 0
    /\ hasNetwork = FALSE

\* capture and GUI tasks running, the server not started
InitFrame ==
    /\ InitCapture
    /\ InitServer
    /\ httpRunning = FALSE
    /\ isInitialized = FALSE
    /\ regpc = "idle"
    /\ AutoConnect = TRUE
    /\ StoredSSID = "X"
    /\ LogDebug = FALSE
    /\ timeout_sec = MaxTimeout
    /\ Retries = MaxRetries
    /\ InitNetwork
    /\ InitDone

NextFrame ==
    \/ VoSPI_Deliver
    \/ Lepton_Receive
    \/ Lepton_SelectTake
    \/ Lepton_SelectGive
    \/ Lepton_Convert
    \/ Lepton_Commit
    \/ Lepton_Publish
    \/ Lepton_Events
    \/ GUI_Receive
    \/ GUI_Scale
    \/ GUI_NetTake
    \/ GUI_Events

SpecFrame == InitFrame /\ [][NextFrame]_vars

(***************************************************************************)
(* Specification of the streaming pipeline                                 *)
(***************************************************************************)
\* Server_Start has returned and NETWORK_EVENT_SERVER_STARTED is posted
InitStream ==
    /\ InitCapture
    /\ InitServer
    /\ httpRunning = TRUE
    /\ isInitialized = TRUE
    /\ regpc = "pending"
    /\ AutoConnect = FALSE
    /\ StoredSSID = "X"
    /\ LogDebug = FALSE
    /\ timeout_sec = MaxTimeout
    /\ Retries = MaxRetries
    /\ ApplicationStarted = TRUE
    /\ npc = "loop"
    /\ WaitingForWiFiRequest = TRUE
    /\ TaskState = "CONNECTED"
    /\ EventBits = {}
    /\ NotificationValue = FALSE
    /\ ManagerState = "CONNECTED"
    /\ RetryCount = 0
    /\ active = FALSE
    /\ timerActive = FALSE
    /\ elapsed = 0
    /\ evq = <<>>
    /\ wifi = "connected"
    /\ failed = 0
    /\ drops = 0
    /\ requests = 0
    /\ nServerStarted = 1
    /\ nProvTimeout = 0
    /\ InitTimezone
    /\ InitLifecycle
    /\ InitDone
    /\ MgrSSID = StoredSSID
    /\ staSSID = StoredSSID
    /\ rxSSID = ""
    /\ provPosts = 0
    /\ hasNetwork = TRUE

GUITask ==
    \/ GUI_Receive
    \/ GUI_Scale
    \/ GUI_NetTake
    \/ GUI_NetWritePix
    \/ GUI_NetWriteMeta
    \/ GUI_Notify
    \/ GUI_Events
    \/ WebSocket_Handler_BroadcastTelemetry

EventLoop ==
    \/ GUI_on_ServerStarted_HTTP
    \/ GUI_on_ServerStarted_WS

HttpdTask ==
    \/ HTTPD_Handshake
    \/ WS_AddClient_Fill
    \/ WS_AddClient_Count
    \/ HTTPD_RecvFrame
    \/ WS_FindClient
    \/ WS_Handler_Dispatch
    \/ HTTP_Handler_Image_Take
    \/ HTTP_Handler_Image_Encode
    \/ HTTPD_TelemetryRequest
    \/ HTTP_Handler_Telemetry

BroadcastTask ==
    \/ WS_Broadcast_Receive
    \/ WS_Broadcast_TakeFrame
    \/ WS_Broadcast_Encode
    \/ WS_Broadcast_Lock
    \/ WS_Broadcast_Clients

NextStream ==
    \/ Lepton_Iteration
    \/ GUITask
    \/ EventLoop
    \/ HttpdTask
    \/ BroadcastTask

SpecStream == InitStream /\ [][NextStream]_vars

\* the FreeRTOS scheduler runs every task that stays ready
SpecStreamFair ==
    /\ SpecStream
    /\ WF_vars(Lepton_Iteration)
    /\ WF_vars(GUITask)
    /\ WF_vars(EventLoop)
    /\ WF_vars(HttpdTask)
    /\ WF_vars(BroadcastTask)

(***************************************************************************)
(* Specification of the network orchestrator                               *)
(***************************************************************************)
\* settings, build and configuration are inputs; nothing is started yet
InitNet ==
    /\ InitCapture
    /\ InitServer
    /\ httpRunning = FALSE
    /\ isInitialized = FALSE
    /\ regpc = "idle"
    /\ AutoConnect \in BOOLEAN
    /\ StoredSSID \in {"", "X"}
    /\ LogDebug \in BOOLEAN
    /\ timeout_sec \in 1..MaxTimeout
    /\ Retries \in 0..MaxRetries
    /\ InitNetwork
    /\ InitDone

NetworkTask ==
    \/ Task_Network_Start
    \/ Task_Network_Loop

NetEventLoop ==
    \/ EventLoop_FreeData
    \/ on_GUI_Event_Handler
    \/ on_WiFi_Event
    \/ on_IP_Event
    \/ on_Network_Event_Handler
    \/ GUI_on_ServerStarted_HTTP
    \/ GUI_on_ServerStarted_WS

WiFiDriver ==
    \/ WiFi_AttemptResult
    \/ WiFi_LinkLost

NextNet ==
    \/ NetworkTask
    \/ NetEventLoop
    \/ WiFiDriver
    \/ Post_OpenWiFiRequest
    \/ HTTP_Handler_Time
    \/ Prov_Tick
    \/ Provision_Handler_Connect
    \/ Task_Network_ProvConnect

SpecNet == InitNet /\ [][NextNet]_vars

(***************************************************************************)
(* Task life cycle: start-up waits, stop requests, the Stop functions      *)
(***************************************************************************)
\* the requests of the GUI the capture task's handler turns into event bits
\* that carry no payload
LeptonRequests == {"UPDATE_TEMP_REQUEST", "UPDATE_SPOTMETER"}

\* on_GUI_Event_Handler (leptonTask.cpp): xEventGroupSetBits for a GUI request
Lepton_on_GUI_Event_Handler ==
    /\ LoopFree
    /\ lpc # "stopped"
    /\ \E bit \in LeptonRequests \ LeptonBits :
          LeptonBits' = LeptonBits \cup {bit}
    /\ UNCHANGED <<auxVars, frameVars, streamVars, cfgVars, taskVars, mgrVars, provVars, drvVars,
                   postVars, tzVars, LeptonRunning, NetRunning, dpc, DevicesBits,
                   DevicesRunning, stopping, polls, stopRet, stopExhausted>>

\* what a ROI action leaves alone
roiRest == <<initVars, credVars, hasNetwork, streamVars, cfgVars, taskVars, mgrVars, provVars,
             drvVars, postVars, tzVars, LeptonRunning, NetRunning, dpc, DevicesBits,
             DevicesRunning, stopping, polls, stopRet, stopExhausted,
             RawFrameQueue, rawCount, RawFrame, WriteBufferIdx, CurrentReadBuffer,
             BufferMutex, chanVars, guiVars>>

\* on_GUI_Event_Handler (leptonTask.cpp), GUI_EVENT_REQUEST_ROI: the memcpy into
\* _LeptonTask_State.ROI has written the first fields. The k-th request carries
\* the rectangle <<k, k>>
Lepton_on_GUI_ROI_Copy ==
    /\ LoopFree
    /\ roipc = "idle"
    /\ lpc # "stopped"
    /\ roiPosts < MaxRoiPosts
    /\ roiPosts' = roiPosts + 1
    /\ ROI' = <<roiPosts + 1, ROI[2]>>
    /\ roipc' = "copy"
    /\ UNCHANGED <<roiRest, lpc, LeptonBits, roiApplied>>

\* the rest of the memcpy, then xEventGroupSetBits(UPDATE_ROI_REQUEST)
Lepton_on_GUI_ROI_SetBits ==
    /\ roipc = "copy"
    /\ ROI' = <<ROI[1], roiPosts>>
    /\ LeptonBits' = LeptonBits \cup {"UPDATE_ROI_REQUEST"}
    /\ roipc' = "idle"
    /\ UNCHANGED <<roiRest, lpc, roiPosts, roiApplied>>

\* the ROI arm of Task_Lepton: the fields of _LeptonTask_State.ROI are read into
\* the local ROI and given to Lepton_SetSpotmeterROI
Lepton_ROI_Set ==
    /\ lpc = "roi"
    /\ roiApplied' = ROI
    /\ lpc' = "roi_clear"
    /\ UNCHANGED <<roiRest, LeptonBits, ROI, roipc, roiPosts>>

\* xEventGroupClearBits(UPDATE_ROI_REQUEST) at the end of the arm
Lepton_ROI_Clear ==
    /\ lpc = "roi_clear"
    /\ LeptonBits' = LeptonBits \ {"UPDATE_ROI_REQUEST"}
    /\ lpc' = "wait"
    /\ UNCHANGED <<roiRest, roiVars>>

\* the iteration of Task_Devices that finds DEVICES_TASK_STOP_REQUEST: the bit
\* is tested before anything else; break, DevicesManager_Deinit, Running = false
Task_Devices_Loop ==
    /\ dpc = "loop"
    /\ "STOP_REQUEST" \in DevicesBits
    /\ DevicesBits' = DevicesBits \ {"STOP_REQUEST"}
    /\ dpc' = "stopped"
    /\ DevicesRunning' = FALSE
    /\ UNCHANGED <<auxVars, frameVars, streamVars, cfgVars, taskVars, mgrVars, provVars, drvVars,
                   postVars, tzVars, LeptonBits, LeptonRunning, NetRunning, stopping, polls,
                   stopRet, stopExhausted>>

\* Lepton_Task_Stop up to its polling loop
Lepton_Task_Stop ==
    /\ stopping = "none"
    /\ stopRet["lepton"] = "none"
    /\ IF LeptonRunning = FALSE
         THEN /\ stopRet' = [stopRet EXCEPT !["lepton"] = "ESP_OK"]
              /\ UNCHANGED <<LeptonBits, stopping>>
         ELSE /\ LeptonBits' = LeptonBits \cup {"STOP_REQUEST"}
              /\ stopping' = "lepton"
              /\ UNCHANGED stopRet
    /\ polls' = 0
    /\ UNCHANGED <<auxVars, frameVars, streamVars, cfgVars, taskVars, mgrVars, provVars, drvVars,
                   postVars, tzVars, LeptonRunning, NetRunning, dpc, DevicesBits,
                   DevicesRunning, stopExhausted>>

\* for (i = 0; i < 20 && Running; i++) vTaskDelay(50 ms); then
\* TaskHandle = NULL; Running = false; return ESP_OK
Lepton_Task_Stop_Poll ==
    /\ stopping = "lepton"
    /\ IF polls < MaxPolls /\ LeptonRunning
         THEN /\ polls' = polls + 1
              /\ UNCHANGED <<stopping, LeptonRunning, stopRet, stopExhausted>>
         ELSE /\ stopExhausted' = [stopExhausted EXCEPT !["lepton"] = LeptonRunning]
              /\ LeptonRunning' = FALSE
              /\ stopRet' = [stopRet EXCEPT !["lepton"] = "ESP_OK"]
              /\ stopping' = "none"
              /\ polls' = 0
    /\ UNCHANGED <<auxVars, frameVars, streamVars, cfgVars, taskVars, mgrVars, provVars, drvVars,
                   postVars, tzVars, LeptonBits, NetRunning, dpc, DevicesBits, DevicesRunning>>

\* Network_Task_Stop up to its polling loop
Network_Task_Stop ==
    /\ stopping = "none"
    /\ stopRet["network"] = "none"
    /\ IF NetRunning = FALSE
         THEN /\ stopRet' = [stopRet EXCEPT !["network"] = "ESP_OK"]
              /\ UNCHANGED <<EventBits, stopping>>
         ELSE /\ EventBits' = EventBits \cup {"STOP_REQUEST"}
              /\ stopping' = "network"
              /\ UNCHANGED stopRet
    /\ polls' = 0
    /\ UNCHANGED <<auxVars, frameVars, streamVars, cfgVars, ApplicationStarted, npc,
                   WaitingForWiFiRequest, TaskState, NotificationValue, mgrVars, provVars,
                   drvVars, postVars, tzVars, LeptonBits, LeptonRunning, NetRunning, dpc,
                   DevicesBits, DevicesRunning, stopExhausted>>

\* for (i = 0; (i < 20) && Running; i++) vTaskDelay(50 ms); then
\* TaskHandle = NULL; Running = false; return ESP_OK
Network_Task_Stop_Poll ==
    /\ stopping = "network"
    /\ IF polls < MaxPolls /\ NetRunning
         THEN /\ polls' = polls + 1
              /\ UNCHANGED <<stopping, NetRunning, stopRet, stopExhausted>>
         ELSE /\ stopExhausted' = [stopExhausted EXCEPT !["network"] = NetRunning]
              /\ NetRunning' = FALSE
              /\ stopRet' = [stopRet EXCEPT !["network"] = "ESP_OK"]
              /\ stopping' = "none"
              /\ polls' = 0
    /\ UNCHANGED <<auxVars, frameVars, streamVars, cfgVars, taskVars, mgrVars, provVars, drvVars,
                   postVars, tzVars, LeptonBits, LeptonRunning, dpc, DevicesBits,
                   DevicesRunning>>

\* DevicesTask_Task_Stop up to its polling loop
DevicesTask_Task_Stop ==
    /\ stopping = "none"
    /\ stopRet["devices"] = "none"
    /\ IF DevicesRunning = FALSE
         THEN /\ stopRet' = [stopRet EXCEPT !["devices"] = "ESP_OK"]
              /\ UNCHANGED <<DevicesBits, stopping>>
         ELSE /\ DevicesBits' = DevicesBits \cup {"STOP_REQUEST"}
              /\ stopping' = "devices"
              /\ UNCHANGED stopRet
    /\ polls' = 0
    /\ UNCHANGED <<auxVars, frameVars, streamVars, cfgVars, taskVars, mgrVars, provVars, drvVars,
                   postVars, tzVars, LeptonBits, LeptonRunning, NetRunning, dpc,
                   DevicesRunning, stopExhausted>>

\* for (i = 0; i < 100 && Running; i++) vTaskDelay(10 ms); then
\* if (Running) return ESP_ERR_TIMEOUT; TaskHandle = NULL; return ESP_OK
DevicesTask_Task_Stop_Poll ==
    /\ stopping = "devices"
    /\ IF polls < MaxPolls /\ DevicesRunning
         THEN /\ polls' = polls + 1
              /\ UNCHANGED <<stopping, stopRet, stopExhausted>>
         ELSE /\ stopExhausted' = [stopExhausted EXCEPT !["devices"] = DevicesRunning]
              /\ stopRet' = [stopRet EXCEPT !["devices"] =
                                IF DevicesRunning THEN "ESP_ERR_TIMEOUT" ELSE "ESP_OK"]
              /\ stopping' = "none"
              /\ polls' = 0
    /\ UNCHANGED <<auxVars, frameVars, streamVars, cfgVars, taskVars, mgrVars, provVars, drvVars,
                   postVars, tzVars, LeptonBits, LeptonRunning, NetRunning, dpc, DevicesBits,
                   DevicesRunning>>

\* the three tasks just created: the capture task in its warm-up, the network
\* task at the application-started gate, the devices task in its loop
InitShutdown ==
    /\ InitPipeline
    /\ lpc = "startup"
    /\ InitServer
    /\ httpRunning = FALSE
    /\ isInitialized = FALSE
    /\ regpc = "idle"
    /\ AutoConnect \in BOOLEAN
    /\ StoredSSID \in {"", "X"}
    /\ LogDebug = FALSE
    /\ timeout_sec = MaxTimeout
    /\ Retries = MaxRetries
    /\ InitNetwork
    /\ InitDone

LeptonTask ==
    \/ Lepton_Startup
    \/ Lepton_Receive
    \/ Lepton_Events
    \/ Lepton_ROI_Set
    \/ Lepton_ROI_Clear

\* STOP_REQUEST of the GUI task's event group: Task_GUI tests it first in its
\* loop, and no code sets it
GUI_STOP_REQUEST == FALSE

\* GUI_Task_Stop: vTaskDelete(GUI_Handle) ends Task_GUI wherever it is, then
\* GUI_Handle = NULL and Running = false
GUI_Task_Stop ==
    /\ stopping = "none"
    /\ gpc # "deleted"
    /\ gpc' = "deleted"
    /\ UNCHANGED <<netVars, streamVars, leptonVars, chanVars, LeptonEvent, guiSkipped>>

StopCalls ==
    \/ GUI_Task_Stop
    \/ Lepton_Task_Stop
    \/ Lepton_Task_Stop_Poll
    \/ Network_Task_Stop
    \/ Network_Task_Stop_Poll
    \/ DevicesTask_Task_Stop
    \/ DevicesTask_Task_Stop_Poll

NextShutdown ==
    \/ LeptonTask
    \/ Lepton_on_GUI_Event_Handler
    \/ Lepton_on_GUI_ROI_Copy
    \/ Lepton_on_GUI_ROI_SetBits
    \/ Task_Devices_Loop
    \/ on_GUI_Event_Handler
    \/ NetworkTask
    \/ StopCalls

SpecShutdown == InitShutdown /\ [][NextShutdown]_vars

(***************************************************************************)
(* Specification of initialisation                                         *)
(***************************************************************************)
\* before app_main calls the Init functions: nothing created yet
InitBoot ==
    /\ InitCapture
    /\ InitServer
    /\ httpRunning = FALSE
    /\ isInitialized = FALSE
    /\ regpc = "idle"
    /\ AutoConnect = TRUE
    /\ StoredSSID = "X"
    /\ LogDebug = FALSE
    /\ timeout_sec = MaxTimeout
    /\ Retries = MaxRetries
    /\ InitNetwork
    /\ initRet = [t \in InitTasks |-> "none"]
    /\ held = [t \in InitTasks |-> {}]

NextInit ==
    \/ GUI_Task_Init
    \/ DevicesTask_Init
    \/ Lepton_Task_Init
    \/ Network_Task_Init

SpecInit == InitBoot /\ [][NextInit]_vars

(***************************************************************************)
(* Properties of the frame pipeline (SpecFrame)                            *)
(***************************************************************************)
\* C1: double-buffer exclusivity. The buffer the capture task is writing is never
\* the buffer the GUI task is reading, also when the capture task completes several
\* frames during one read.
C1_BufferExclusive ==
    ~(lpc = "convert" /\ gpc = "scale" /\ WriteBufferIdx = LeptonEvent.Buffer)

\* C2: frame overwrite. After N >= 1 publishes without a receive between them, a
\* receive returns the N-th descriptor and empties the channel; a receive with no
\* publish since the last one returns no frame.
C2_FrameOverwrite ==
    [][GUI_Receive =>
         IF pubLog = <<>>
           THEN gpc' = "events" /\ LeptonEvent' = LeptonEvent
           ELSE /\ LeptonEvent' = pubLog[Len(pubLog)]
                /\ Lepton_FrameEventQueue' = <<>>]_vars

\* C2 witness: a receive that covered two or more publishes and got the last one
C2_Witness ==
    /\ gpc = "scale"
    /\ nCoalesced >= 2
    /\ LeptonEvent.Seq >= 2

(***************************************************************************)
(* Properties of the streaming pipeline (SpecStream, SpecStreamFair)       *)
(***************************************************************************)
CycleEnded == cycle \in {"done", "failed", "skipped"}

\* C3 as stated: every receive of the broadcast task is followed by exactly one
\* encode, however many signals it covered.
C3_ExactlyOneEncode == CycleEnded => encCount = 1

\* C3 as amended: a receive covers K >= 1 signals and is followed by at most one
\* encode; by exactly one unless the cycle is skipped (no frame registered, or the
\* frame mutex not obtained in time); what is encoded is the last complete
\* NetworkFrame update.
C3_Coalescing ==
    /\ cycle # "none" => cycleK >= 1
    /\ encCount <= 1
    /\ cycle \in {"done", "failed"} => encCount = 1
    /\ cycle = "skipped" => encCount = 0
    /\ bpc = "encode" =>
         NetworkFrame = [pix |-> lastComplete, meta |-> lastComplete]

\* C3 witness: one finished cycle with one encode for two signals
C3_Witness == cycle = "done" /\ cycleK >= 2 /\ encCount = 1

\* C4: client congestion. Once the broadcast task holds an encoded frame and a
\* streaming client whose sends fail is due, that client is eventually marked
\* inactive (or has stopped streaming).
C4_CongestedClientRemoved ==
    \A s \in Slots :
       (bpc = "lock" /\ Due(s) /\ Clients[s].fd \in FailingFds)
          ~> (~Clients[s].active \/ ~Clients[s].stream_enabled)

SendPathUnreached ==
    /\ bpc \notin {"send", "relock"}
    /\ \A s \in Slots : Clients[s].last_frame_time = 0
    /\ \A s \in Slots : Clients[s].stream_enabled => ClientsMutex = "httpd"

ReaderHolds == nfMutex \in {"bcast", "httpd"}

\* C10: buffer-busy skip. A render cycle that finds the NetworkFrame mutex taken
\* writes no field and no pixel; while a reader holds the mutex the NetworkFrame
\* is complete and does not change.
C10_BufferBusySkip ==
    [][/\ ReaderHolds =>
            /\ NetworkFrame.pix = NetworkFrame.meta
            /\ NetworkFrame' = NetworkFrame
       /\ (gpc = "net" /\ httpRunning /\ nfMutex # "free" /\ gpc' # "net") =>
            /\ gpc' = "notify"
            /\ guiSkipped'
       /\ guiSkipped => NetworkFrame' = NetworkFrame]_vars

\* C10 witness: the GUI skipped the update for a new frame while the broadcast
\* task holds the mutex on the previous one
C10_Witness ==
    /\ guiSkipped
    /\ nfMutex = "bcast"
    /\ NetworkFrame.meta # 0
    /\ LeptonEvent.Seq # NetworkFrame.meta

(***************************************************************************)
(* Properties of the network orchestrator (SpecNet)                        *)
(***************************************************************************)
\* nothing is left to do: the task is in its loop with no bit and no notification,
\* no event waits for dispatch, no handler runs, no connection attempt is pending
Quiescent ==
    /\ npc = "loop"
    /\ EventBits = {}
    /\ ~NotificationValue
    /\ evq = <<>>
    /\ LoopFree
    /\ wifi # "connecting"

\* C6: retry exhaustion. With max-retries R, once the consecutive failed connection
\* attempts have reached R and one more has failed, and the disconnect handler has
\* run, the manager is in the Error state and no reconnect attempt is pending.
C6_RetryExhaustion ==
    (failed > Retries /\ evq = <<>> /\ LoopFree) =>
       (ManagerState = "ERROR" /\ wifi # "connecting")

\* C7: normal connect. With stored credentials, once the started orchestrator has
\* nothing left to do, and no attempt has failed, no link was lost and no request
\* was posted, the state is Connected and exactly one SERVER_STARTED was posted.
C7_NormalConnect ==
    (Quiescent /\ StoredSSID # "" /\ failed = 0 /\ drops = 0 /\ requests = 0) =>
       (ManagerState = "CONNECTED" /\ TaskState = "CONNECTED" /\ nServerStarted = 1)

\* C8: provisioning timeout. Without stored credentials, once provisioning has been
\* active for the configured timeout and the orchestrator has nothing left to do,
\* PROV_TIMEOUT was posted exactly once, provisioning is stopped and the state is
\* AP-Started.
C8_ProvisioningTimeout ==
    (Quiescent /\ StoredSSID = "" /\ elapsed >= timeout_sec) =>
       (nProvTimeout = 1 /\ ~active /\ ManagerState = "AP_STARTED")

\* C11: copy semantics of the event bus. The timezone the network task applies in
\* its loop is the payload that was delivered with the SET_TZ event, whatever the
\* poster and the event loop did with their buffers after the post.
C11_PayloadCopied == SystemTimezone = tzExpected

(***************************************************************************)
(* Bounded waits                                                           *)
(***************************************************************************)
\* C12: every blocking acquisition in the capture, GUI, network-task and
\* broadcast paths has a bounded timeout: a task that stands at a mutex take or
\* a queue receive can always complete that step, with the resource or with a
\* timeout, whoever holds the resource at that moment.  (The 100 ms receive of
\* the broadcast task is left out: its timeout returns to the same receive and
\* is a stuttering step.)
C12_BoundedWaits ==
    /\ (gpc = "poll" => ENABLED GUI_Receive)
    /\ (gpc = "net" => ENABLED GUI_NetTake)
    /\ (gpc = "telemetry" => ENABLED WebSocket_Handler_BroadcastTelemetry)
    /\ (bpc = "take" => ENABLED WS_Broadcast_TakeFrame)
    /\ (bpc = "lock" => ENABLED WS_Broadcast_Lock)
    /\ (bpc = "relock" => ENABLED WS_Broadcast_Clients)
    /\ (lpc = "wait" => ENABLED Lepton_Receive)
    /\ (lpc = "select" => ENABLED Lepton_SelectTake)
    /\ (lpc = "commit" => ENABLED Lepton_Commit)

(***************************************************************************)
(* Shutdown                                                                *)
(***************************************************************************)
\* C13: a task whose stop-request bit is set terminates in the loop iteration
\* it is in: the step that ends an iteration begun with the bit set (the event
\* dispatch of the loop, or the exit of a start-up wait) leaves the task
\* stopped, whatever other bits are set.
C13_CooperativeShutdown ==
    [][/\ ("STOP_REQUEST" \in LeptonBits /\ lpc \in {"startup", "events"} /\ lpc' # lpc
            => lpc' = "stopped")
       /\ ("STOP_REQUEST" \in EventBits /\ npc = "gate" /\ npc' # npc
            => npc' = "stopped")
       /\ ("STOP_REQUEST" \in EventBits /\ Task_Network_Loop => npc' = "stopped")
       /\ ("STOP_REQUEST" \in DevicesBits /\ Task_Devices_Loop => dpc' = "stopped")]_vars

\* C14: a Stop call whose polling loop ran out with the task still running
\* returns a timeout error.
C14_StopTimeout ==
    \A t \in Tasks : stopExhausted[t] => stopRet[t] = "ESP_ERR_TIMEOUT"

(***************************************************************************)
(* Initialisation                                                          *)
(***************************************************************************)
\* C15: an Init that returned an error has released every resource and every
\* handler registration it had made.
C15_InitRollback ==
    \A t \in InitTasks : initRet[t] \notin {"none", "ESP_OK"} => held[t] = {}

(***************************************************************************)
(* NetworkState                                                            *)
(***************************************************************************)
\* C16: the state kept by the network task and the state kept by the network
\* manager do not disagree where another task can observe them: whenever the
\* network part is at rest (no event waiting or being handled, the task in its
\* loop with nothing to do, no connection attempt running) the two are equal.
C16_SingleNetworkState == Quiescent => TaskState = ManagerState

(***************************************************************************)
(* WebSocket clients                                                       *)
(***************************************************************************)
\* C17: once the handler has decided to remove a client (close frame, or a
\* pong that failed twice), that client's entry becomes inactive and the
\* handler invocation returns.
C17_ClientDestruction ==
    \A fd \in Fds :
        (hpc = "remove" /\ Frame.fd = fd) ~> (hpc = "idle" /\ LookupClient(fd) = 0)

\* C18: a text frame with malformed JSON, a non-string cmd or an unknown
\* command is ignored: when the handler invocation that got it returns, the
\* client table is unchanged (the client active, its stream and telemetry
\* settings as before) and the handler does not keep the clients mutex, so
\* that later frames of the connection can be served.
C18_ProtocolMisbehaviour ==
    [][(/\ hpc = "dispatch"
        /\ Frame.type = "TEXT"
        /\ ~Frame.valid
        /\ Client # 0
        /\ hpc' = "idle")
       => (Clients' = Clients /\ ClientsMutex' # "httpd")]_vars

\* C19: no client stalls the GUI loop: whatever the WebSocket clients and the
\* handler serving them do, an iteration of the GUI task that has begun
\* (frame handling, frame-ready notification, telemetry broadcast from the
\* clock timer) comes to its end and the task is back at the top of its loop.
C19_NoPipelineStall == (gpc # "poll") ~> (gpc = "poll")

\* C20: when the retry budget is exhausted (Retries attempts have failed and
\* one more has, and the disconnect has been handled), the failure is
\* observable: the manager's state and the network task's NetworkState are
\* both Error.
C20_RetryExhaustionReported ==
    (failed > Retries /\ evq = <<>> /\ LoopFree) =>
        (ManagerState = "ERROR" /\ TaskState = "ERROR")

\* C21: start transition. The step in which the network task passes its start
\* gate starts the station connect (manager state Connecting) when credentials
\* are stored, and starts provisioning (task state Provisioning, provisioning
\* active) when none are.
C21_StartTransition ==
    [][Task_Network_Start =>
          IF StoredSSID # ""
            THEN ManagerState' = "CONNECTING"
            ELSE TaskState' = "PROVISIONING" /\ active']_vars

\* C22: provisioning success. The step in which the network task acts on the
\* credentials-received event finds provisioning already stopped, and it puts
\* the manager into Connecting with a station configuration that names the SSID
\* received by the provisioning request.
C22_ProvisioningSuccess ==
    [][Task_Network_ProvConnect =>
          /\ ~active /\ ~active'
          /\ ManagerState' = "CONNECTING"
          /\ rxSSID \in ProvSSIDs
          /\ staSSID' = rxSSID]_vars

\* the network task has connected after provisioning: back in its loop, provisioning
\* stopped, the manager Connecting with a received SSID
C22_Witness ==
    /\ npc = "loop"
    /\ "PROV_SUCCESS" \notin EventBits
    /\ ~active
    /\ ManagerState = "CONNECTING"
    /\ staSSID \in ProvSSIDs

C24_UniformRetry ==
    [][(on_WiFi_Event /\ Head(evq) = "STA_DISCONNECTED" /\ RetryCount < Retries)
          => /\ RetryCount' = RetryCount + 1
             /\ wifi' = "connecting"
             /\ ManagerState' = "CONNECTING"]_vars

\* C25: error propagation. An Init function that has returned ESP_OK holds every
\* resource it is to create, and NETWORK_EVENT_SERVER_STARTED is posted only by a
\* step that leaves the server initialized and running.
C25_ErrorPropagation ==
    [][/\ \A t \in InitTasks : initRet'[t] = "ESP_OK" => held'[t] = InitSteps(t)
       /\ nServerStarted' > nServerStarted => (isInitialized' /\ httpRunning')]_vars

\* C26: clients-mutex release. Between two handler invocations of the httpd task
\* the clients mutex is not held by it: every path that took the mutex has given
\* it back before the handler returned.
C26_ClientsMutexReleased == hpc = "idle" => ClientsMutex # "httpd"

\* C27: loop exit only by stop. A task function ends only in a step that finds
\* the task's stop-request bit set, and that step marks the task not-running.
C27_LoopExitOnlyByStop ==
    [][/\ (lpc' = "stopped" /\ lpc # "stopped")
           => ("STOP_REQUEST" \in LeptonBits /\ ~LeptonRunning')
       /\ (npc' = "stopped" /\ npc # "stopped")
           => ("STOP_REQUEST" \in EventBits /\ ~NetRunning')
       /\ (dpc' = "stopped" /\ dpc # "stopped")
           => ("STOP_REQUEST" \in DevicesBits /\ ~DevicesRunning')
       /\ (gpc' = "deleted" /\ gpc # "deleted") => GUI_STOP_REQUEST]_vars

\* C28: handle freed only after teardown. Whenever the capture task or the
\* network task counts as not running, so that its Start function would create the
\* task, the task function of the earlier instance has ended.
C28_HandleFreedAfterTeardown ==
    /\ ~LeptonRunning => lpc = "stopped"
    /\ ~NetRunning => npc = "stopped"

\* a step of a handler that runs on the default event loop
HandlerStep ==
    \/ on_GUI_Event_Handler
    \/ on_WiFi_Event
    \/ on_IP_Event
    \/ on_Network_Event_Handler
    \/ GUI_on_ServerStarted_HTTP
    \/ GUI_on_ServerStarted_WS

\* C31: handlers only set bits. A handler step copies the payload and sets an
\* event bit or a flag; it starts no connection attempt, starts or stops no
\* server and no provisioning, and writes nothing that is guarded by a mutex.
C31_HandlersOnlySetBits ==
    [][HandlerStep => /\ wifi' = wifi
                      /\ active' = active
                      /\ httpRunning' = httpRunning
                      /\ isInitialized' = isInitialized
                      /\ ThermalFrame' = ThermalFrame]_vars

\* C32: NetworkFrame reads are locked. Every step of the HTTP and WebSocket
\* paths that reads the NetworkFrame (the two encodes, the two telemetry reads of
\* temp_avg) is taken while its task holds the NetworkFrame mutex.
C32_NetworkFrameReadsLocked ==
    [][/\ HTTP_Handler_Image_Encode => nfMutex = "httpd"
       /\ WS_Broadcast_Encode => nfMutex = "bcast"
       /\ (HTTP_Handler_Telemetry /\ httpThermalFrame) => nfMutex = "httpd"
       /\ (WebSocket_Handler_BroadcastTelemetry /\ ThermalFrame) => nfMutex = "gui"]_vars

\* C33: WSClient writes are locked. Every step that changes an entry of the
\* client table is made by a task that holds the clients mutex: the httpd task
\* holds it before the write (message handling) or takes it in the step
\* (WS_AddClient), the broadcast task takes it back before applying a send
\* result, the telemetry broadcast takes it, writes and gives it in one step.
C33_ClientWritesLocked ==
    [][Clients' # Clients =>
          \/ HttpdTask /\ ClientsMutex \in {"free", "httpd"} /\ ClientsMutex' = "httpd"
          \/ BroadcastTask /\ ClientsMutex = "free" /\ ClientsMutex' = "bcast"
          \/ WebSocket_Handler_BroadcastTelemetry /\ ClientsMutex = "free"]_vars

\* a start command has been applied to a client's entry, and the httpd task that
\* wrote it holds the clients mutex
C33_Witness ==
    /\ hpc = "idle"
    /\ ClientsMutex = "httpd"
    /\ \E s \in Slots : Clients[s].active /\ Clients[s].stream_enabled

\* the got-IP and disconnected events and their bits are all handled
LinkEventsDrained ==
    /\ npc = "loop"
    /\ EventBits \cap {"WIFI_CONNECTED", "WIFI_DISCONNECTED"} = {}
    /\ \A i \in 1..Len(evq) : evq[i] \notin {"WIFI_GOT_IP", "WIFI_DISCONNECTED"}

\* C34: event order through bits. The handler leaves the task state CONNECTED or
\* DISCONNECTED according to the most recent of the two events; once the loop
\* has drained the bits, the time-sync network-available flag agrees with it.
C34_EventOrder ==
    (LinkEventsDrained /\ TaskState \in {"CONNECTED", "DISCONNECTED"})
        => (hasNetwork <=> TaskState = "CONNECTED")

\* C35: a request that arrives while the task is still processing an earlier one
\* of the same kind is not lost: once the handler has returned, the request bit
\* is clear and the task is outside the arm, the rectangle given to the camera
\* last is the one posted last, and it is never a mixture of two payloads
ROIRequestsDrained ==
    /\ roiPosts > 0
    /\ roipc = "idle"
    /\ "UPDATE_ROI_REQUEST" \notin LeptonBits
    /\ lpc \notin {"roi", "roi_clear"}

C35_NoLostRequest ==
    /\ roiApplied[1] = roiApplied[2]
    /\ ROIRequestsDrained => roiApplied = <<roiPosts, roiPosts>>

\* C36: the frame-ready queue, the clients mutex and the registered NetworkFrame
\* are not used after the deinit has deleted them: the only deinit is the one of
\* Provisioning_Stop, and it runs only while provisioning is active and before
\* any server with the WebSocket endpoint was started, that is with no broadcast
\* task, no client and no registered frame; a server started later is not torn down
WebSocket_Handler_Deinit == isInitialized /\ ~isInitialized'

C37_SignalFollowsUpdate ==
    [][sigCount' > sigCount => ~guiSkipped /\ lastComplete = LeptonEvent.Seq]_vars

\* C38 as stated: the frame-ready signal is written to the signal queue only if
\* at least one client is subscribed (has started the stream or subscribed to
\* telemetry)
Subscribed(s) ==
    /\ Clients[s].active
    /\ Clients[s].stream_enabled \/ Clients[s].telemetry_enabled

C38_NotifyOnlyWithSubscribers ==
    [][sigCount' > sigCount => \E s \in Slots : Subscribed(s)]_vars

\* C38: the frame-ready signal is written to the signal queue only if at least one
\* client is counted in the client table; with a client count of zero nothing is
\* enqueued and the broadcast task opens no cycle
C38_NotifyOnlyWithClients ==
    [][/\ sigCount' > sigCount => ClientCount > 0
       /\ (WS_Broadcast_Receive /\ cycle' = "open") => ClientCount > 0
       /\ WS_Broadcast_Encode => cycle = "open"]_vars

\* a signal is queued for a connected client that has subscribed to nothing
C38_Witness ==
    /\ FrameReadyQueue = <<1>>
    /\ ClientCount > 0
    /\ \A s \in Slots : ~Subscribed(s)

\* C39: in a broadcast cycle the frame is encoded at most once, the encoded image
\* is held only from the encode until the loop over the clients has ended, and an
\* image that was encoded is eventually freed
C39_OneEncodeOneFree ==
    /\ [](encCount <= 1)
    /\ [](Encoded # 0 => bpc \in {"lock", "scan", "send", "relock"})
    /\ (Encoded # 0) ~> (Encoded = 0)

\* C40: before the network task has observed the application-started event it
\* is still at its gate, the WiFi driver is stopped and no connection attempt and
\* no provisioning has been started, whatever events were posted meanwhile
C40_ApplicationStartedGate ==
    ~ApplicationStarted =>
        /\ npc = "gate"
        /\ wifi = "stopped"
        /\ ~active
        /\ ~httpRunning
        /\ ManagerState = "IDLE"
        /\ TaskState = "IDLE"
        /\ staSSID = ""

\* a WiFi open request is pending while the task still waits at the gate
C40_Witness ==
    /\ ~ApplicationStarted
    /\ npc = "gate"
    /\ "OPEN_WIFI_REQUEST" \in EventBits

====
